---- MODULE Spec2Model ----
(***************************************************************************)
(* One streaming session of the SonicScribe backend: the websocket handler *)
(* (main.py, websocket_audio), its ConnectionManager (connection_manager.py)*)
(* with the AudioBufferManager (audio_manager.py) and the                  *)
(* VADProcessorManager (vad_processor_manager.py), plus the process-wide   *)
(* AppConfig.VAD_SMOOTHING_WINDOW that /vad/config rewrites.               *)
(* A second part models one request to POST /transcribe/file (main.py,     *)
(* transcribe_file) and the lines of its response; a third the hotwords   *)
(* of one call of ASRModel.transcribe (asr.py).                            *)
(*                                                                         *)
(* Time is wall-clock time in whole seconds.  Thresholds are in hundredths *)
(* (0.3 is 30).  PCM is not stored byte by byte: a frame's audio_data is   *)
(* the slice of the payload it was cut from plus the number of zero bytes  *)
(* appended, so lengths and slice positions are computed as the code does. *)
(***************************************************************************)
EXTENDS Integers, Sequences, FiniteSets, TLC

VARIABLES
    now,                    \* time.time()
    transport,              \* the peer: "open" | "broken" (peer gone, not yet seen by receive)
    client_state,           \* websocket.client_state: "CONNECTED" | "DISCONNECTED"
    ingress_pc,             \* websocket_audio: "accepted" | "recv" (receive loop) | "closed" (after finally)
    is_active,              \* ConnectionManager.is_active
    VAD_SMOOTHING_WINDOW,   \* AppConfig.VAD_SMOOTHING_WINDOW (class attribute, process-wide)
    chunk_buffer,           \* AudioBufferManager.chunk_buffer: chunk_id -> AudioChunk
    speech_segments,        \* AudioBufferManager.speech_segments
    current_segment,        \* AudioBufferManager.current_segment: <<>> (None) or <<segment>>
    next_chunk_id,          \* AudioBufferManager.next_chunk_id
    last_cleanup_time,      \* AudioBufferManager.last_cleanup_time
    vad_is_speaking,        \* VADProcessorManager.vad_is_speaking
    speech_count,           \* VADProcessorManager.speech_count
    silence_count,          \* VADProcessorManager.silence_count
    chunk_accumulator,      \* VADProcessorManager.chunk_accumulator (AudioChunk objects)
    current_vad_threshold,  \* VADProcessorManager.current_vad_threshold, in hundredths
    last_temporary_transcription_time,
    saved_temporary_transcription_text, \* one entry per appended transcript: the utterance it is of
    vad_pc,                 \* vad_loop: "none" | "idle" | "commit" | "tentative" | "dead" | "cancelled"
    commit_job,             \* the running process_committed_transcription: <<>> or <<job>>
    outbox,                 \* send_json calls being awaited by the VAD task
    next_segment_uid,       \* id(segment) of the next SpeechSegment constructed
    sent,                   \* history: transcript outputs written to the transport, in order
    admitted_ids,           \* history: chunk_id given to each admitted frame, in admission order
    msg_count,              \* history: binary messages received so far
    last_payload,           \* history: the last binary payload, and what it admitted
    config_updates,         \* history: vad_config messages handled so far
    vad_log,                \* history: the last evaluated VAD windows, newest last
    VAD_SPEECH_THRESHOLD,   \* AppConfig.VAD_SPEECH_THRESHOLD (process-wide), in hundredths
    last_activity,          \* ConnectionManager.last_activity
    receive_started,        \* when the pending wait_for(websocket.receive()) began
    engine_call,            \* the engine call the event loop thread is inside: <<>> or <<call>>
    tentative_attempts,     \* history: the calls of process_temporary_transcription
    speech_windows,         \* history: per utterance (by uid), its windows with a speech verdict
    last_commit,            \* history: the job of the last process_committed_transcription
    late_writes,            \* history: <<>>, or <<n>>: n writes attempted since a send failed
    last_reply,             \* history: <<>>, or the reply to the last vad_config and its config
    other_config_updates,   \* history: vad_config updates made through other connections
    asr_failures,           \* history: the ASR engine calls that raised
    vad_passed,             \* history: <<>>, or the last chunk id given to the VAD engine
    active_connections,     \* main.py: the keys of active_connections
    cleanups,               \* history: the runs of manager.cleanup() on this connection
    batch_pc,               \* POST /transcribe/file: where transcribe_generator stands
    batch_request,          \* <<>>, or <<[stream, total_samples, raw_segments]>>
    final_segments,         \* transcribe_file: final_segments
    transcription_tasks,    \* per final segment, its transcribe_segment task: state and result
    batch_lines,            \* the lines transcribe_generator has yielded, in order
    batch_order,            \* history: segment_index of the tasks, in order of completion
    batch_response,         \* <<>>, or <<the body returned in non-streaming mode>>
    hotwords,               \* ASRModel.transcribe: the hotwords it was called with
    hotwords_prompt         \* <<>>, or <<the entries _format_hotwords_prompt put in the prompt>>

sessionVars ==
    <<now, transport, client_state, ingress_pc, is_active, VAD_SMOOTHING_WINDOW,
      chunk_buffer, speech_segments, current_segment, next_chunk_id,
      last_cleanup_time, vad_is_speaking, speech_count, silence_count,
      chunk_accumulator, current_vad_threshold, last_temporary_transcription_time,
      saved_temporary_transcription_text, vad_pc, commit_job, outbox,
      next_segment_uid, sent, admitted_ids, msg_count, last_payload,
      config_updates, vad_log, VAD_SPEECH_THRESHOLD, last_activity, receive_started,
      engine_call, tentative_attempts, speech_windows, last_commit, late_writes,
      last_reply, other_config_updates, asr_failures, vad_passed,
      active_connections, cleanups>>

batchVars == <<batch_pc, batch_request, final_segments, transcription_tasks,
               batch_lines, batch_order, batch_response>>

asrVars == <<hotwords, hotwords_prompt>>

vars == <<sessionVars, batchVars, asrVars>>

bufferVars == <<chunk_buffer, speech_segments, current_segment, next_chunk_id,
                last_cleanup_time>>
vadVars == <<vad_is_speaking, speech_count, silence_count, chunk_accumulator,
             current_vad_threshold>>
taskVars == <<last_temporary_transcription_time, saved_temporary_transcription_text,
              vad_pc, commit_job, outbox, next_segment_uid>>
ingressHistVars == <<admitted_ids, msg_count, last_payload>>
taskHistVars == <<tentative_attempts, speech_windows, last_commit>>
configVars == <<VAD_SPEECH_THRESHOLD, last_reply, other_config_updates>>
engineHistVars == <<asr_failures, vad_passed>>
registryVars == <<active_connections, cleanups>>

(***************************************************************************)
(* AppConfig (config.py)                                                   *)
(***************************************************************************)
AUDIO_SAMPLE_RATE == 16000
AUDIO_CHUNK_DURATION_MS == 64
AUDIO_CHUNK_SIZE == (AUDIO_SAMPLE_RATE * 2 * AUDIO_CHUNK_DURATION_MS) \div 1000
MAX_AUDIO_BUFFER_SECONDS == 30
VAD_INITIAL_THRESHOLD == 30
VAD_THRESHOLD_MIN == 30
VAD_THRESHOLD_MAX == 90
VAD_THRESHOLD_STEP == 10
TEMPORARY_TRANSCRIPTION_INTERVAL == 20
MAX_SEGMENT_DURATION == 30
MAX_SPEECH_SEGMENTS == 3

\* main.py, websocket_audio: wait_for(..., timeout=5.0) and "> 30.0", in seconds
RECEIVE_TIMEOUT == 5
IDLE_TIMEOUT == 30
\* VAD_SMOOTHING_WINDOW as config.py sets it at import.  get_chunks_for_vad
\* binds it as the default of window_size when the class body is executed, so
\* that default stays 2 whatever /vad/config writes later.
INITIAL_VAD_SMOOTHING_WINDOW == 2

(***************************************************************************)
(* Bounds of the model                                                     *)
(***************************************************************************)
\* VADProcessorManager.processing_window.  The code sets it to
\* AppConfig.VAD_PROCESS_WINDOW = 10; the model evaluates shorter windows so
\* that several windows fit in the frames it admits.  It stays larger than
\* the two frames get_chunks_for_vad returns, as in the code.
processing_window == 3
MaxMessages == 5        \* binary messages received in a session
MaxVadMessages == 7     \* binary messages received while the VAD is reconfigured
MaxPayloads == 3        \* binary messages received by the receive loop alone
MaxSpeechMessages == 21 \* binary messages received in a session of sustained speech
MaxTime == 32           \* the clock stops advancing here
MaxLog == 4             \* evaluated windows remembered in vad_log
MaxConfigUpdates == 1   \* vad_config messages handled on the connection
MaxSplitMessages == 4   \* binary messages received in a session with an upload
BurstFrames == 471      \* frames in the payload of an upload
MaxIdleMessages == 1    \* binary messages of a session on its timers
MaxIdleTime == 45       \* the last second of a session on its timers
MaxOversizeMessages == 3 \* binary messages of a session with oversize payloads
OversizeFrames == 4     \* whole frames in an oversize payload
MaxHotwords == 12       \* distinct words in the hotwords of a call
MaxHandlerMessages == 4 \* binary messages of a session followed to its end

\* lengths of the binary payloads the client sends
PayloadLens == {0, AUDIO_CHUNK_SIZE - 1, AUDIO_CHUNK_SIZE, 2 * AUDIO_CHUNK_SIZE + 1}
\* payloads of exactly one frame, what the bundled client sends
FrameLens == {AUDIO_CHUNK_SIZE}
\* payloads of a client that sends buffered audio in one message
BurstLens == {BurstFrames * AUDIO_CHUNK_SIZE}
\* payloads of one frame, and oversize payloads that hold several whole frames
OversizeLens == {AUDIO_CHUNK_SIZE, OversizeFrames * AUDIO_CHUNK_SIZE}
\* seconds the clock may jump between two steps
TimeSteps == {MAX_AUDIO_BUFFER_SECONDS + 1}
\* the seconds that can pass between two events of a session on its timers
IdleSteps == 1..RECEIVE_TIMEOUT
\* the audio of the files posted to /transcribe/file, by the segments get_segments
\* finds in it (in samples): 50 ms; 2 s; 30 s; 30.05 s; 30 s and a little more than
\* 0.1 s; two stretches of speech, the second of 31 s; 95 s without a pause
BatchAudio ==
    {[total_samples |-> 800,
      raw_segments |-> <<[original_index |-> 1, start_sample |-> 0, end_sample |-> 800]>>],
     [total_samples |-> 32000,
      raw_segments |-> <<[original_index |-> 1, start_sample |-> 0, end_sample |-> 32000]>>],
     [total_samples |-> 480000,
      raw_segments |-> <<[original_index |-> 1, start_sample |-> 0, end_sample |-> 480000]>>],
     [total_samples |-> 480800,
      raw_segments |-> <<[original_index |-> 1, start_sample |-> 0, end_sample |-> 480800]>>],
     [total_samples |-> 481601,
      raw_segments |-> <<[original_index |-> 1, start_sample |-> 0, end_sample |-> 481601]>>],
     [total_samples |-> 640000,
      raw_segments |-> <<[original_index |-> 1, start_sample |-> 16000, end_sample |-> 48000],
                         [original_index |-> 2, start_sample |-> 64000, end_sample |-> 560000]>>],
     [total_samples |-> 1520000,
      raw_segments |-> <<[original_index |-> 1, start_sample |-> 0, end_sample |-> 1520000]>>]}
BatchRequests ==
    {[stream |-> st, total_samples |-> a.total_samples, raw_segments |-> a.raw_segments] :
        st \in BOOLEAN, a \in BatchAudio}
\* values a vad_config message writes to smoothing_window
ConfigWindows == {1, 2, 3}
\* what VADProcessor.is_voice_active does on a window
Verdicts == {"speech", "silence", "error"}
\* what ASRModel.transcribe gives back: a text, an empty text, or an exception
AsrOutcomes == {"text", "empty", "error"}

Min(a, b) == IF a <= b THEN a ELSE b
Max(a, b) == IF a >= b THEN a ELSE b
Last(s) == s[Len(s)]
Only(S) == CHOOSE x \in S : TRUE

(***************************************************************************)
(* data_basic.py                                                           *)
(***************************************************************************)
\* bytes: `lo`..`hi` of binary message `msg`, followed by `pad` zero bytes
Bytes(msg, lo, hi, pad) == [msg |-> msg, lo |-> lo, hi |-> hi, pad |-> pad]
ByteLen(b) == (b.hi - b.lo) + b.pad

AudioChunk(chunk_id, timestamp, audio_data) ==
    [chunk_id |-> chunk_id, timestamp |-> timestamp, audio_data |-> audio_data]

SpeechSegment(uid, start_chunk_id, start_time) ==
    [uid |-> uid, start_chunk_id |-> start_chunk_id, start_time |-> start_time,
     end_chunk_id |-> -1, end_time |-> -1, is_final |-> FALSE]

finalize_dropping_flag(seg, end_chunk_id, end_time) ==
    [seg EXCEPT !.end_chunk_id = end_chunk_id, !.end_time = end_time]

\* finalize that records the end time only
finalize_time_only(seg, end_chunk_id, end_time) ==
    [seg EXCEPT !.end_time = end_time, !.is_final = TRUE]

finalize(seg, end_chunk_id, end_time) ==
    [seg EXCEPT !.end_chunk_id = end_chunk_id, !.end_time = end_time, !.is_final = TRUE]

\* SpeechSegment.duration of a segment at time t
duration(seg, t) ==
    IF seg.end_time <= 0 THEN t - seg.start_time ELSE seg.end_time - seg.start_time

(***************************************************************************)
(* audio_manager.py: AudioBufferManager, as functions of its fields        *)
(***************************************************************************)
Restrict(f, S) == [x \in S |-> f[x]]

\* an eviction pass that removes nothing
kept_every_chunk_id(buf, t) == DOMAIN buf

\* the frames _cleanup_old_chunks keeps when it runs at time t
kept_chunk_ids(buf, t) ==
    {cid \in DOMAIN buf : ~(buf[cid].timestamp < t - MAX_AUDIO_BUFFER_SECONDS)}

\* _cleanup_old_chunks at time t: [chunk_buffer, speech_segments, last_cleanup_time]
cleanup_old_chunks(buf, segs, lc, t) ==
    IF t - lc < 1
    THEN [chunk_buffer |-> buf, speech_segments |-> segs, last_cleanup_time |-> lc]
    ELSE LET KeepSeg(seg) == seg.start_time >= t - MAX_AUDIO_BUFFER_SECONDS
         IN  [chunk_buffer |-> Restrict(buf, kept_chunk_ids(buf, t)),
              speech_segments |-> SelectSeq(segs, KeepSeg),
              last_cleanup_time |-> t]

\* the chunk_id add_audio_chunk gives the next frame
reused_chunk_id(buf, nid) == Cardinality(DOMAIN buf)

new_chunk_id(buf, nid) == nid

\* add_audio_chunk(audio_data) at time t on the manager state bm
add_audio_chunk(bm, audio_data, t) ==
    LET cid == new_chunk_id(bm.chunk_buffer, bm.next_chunk_id)
        chunk == AudioChunk(cid, t, audio_data)
        with == [x \in DOMAIN bm.chunk_buffer \cup {cid} |->
                    IF x = cid THEN chunk ELSE bm.chunk_buffer[x]]
    IN  Only({[chunk_buffer |-> cl.chunk_buffer,
               speech_segments |-> cl.speech_segments,
               last_cleanup_time |-> cl.last_cleanup_time,
               next_chunk_id |-> bm.next_chunk_id + 1,
               chunk_id |-> cid] :
              cl \in {cleanup_old_chunks(with, bm.speech_segments,
                                         bm.last_cleanup_time, t)}})

SetToSortedSeq(S) ==
    LET RECURSIVE Build(_)
        Build(T) == IF T = {} THEN <<>>
                    ELSE LET m == CHOOSE x \in T : \A y \in T : x <= y
                         IN  <<m>> \o Build(T \ {m})
    IN  Build(S)

\* get_chunks_for_vad(window_size): no code sets is_processed, so every frame
\* in the buffer counts as unprocessed
get_chunks_for_vad(buf, window_size) ==
    LET \* sorted(..., reverse=True)[:window_size]: the k largest of ids
        RECURSIVE Newest(_, _)
        Newest(ids, k) ==
            IF k = 0 \/ ids = {} THEN {}
            ELSE LET m == CHOOSE c \in ids : (c + 1) \notin ids /\ \A d \in ids : d <= c
                 IN  {m} \cup Newest(ids \ {m}, k - 1)
        order == SetToSortedSeq(Newest(DOMAIN buf, window_size))
    IN  [i \in 1..Len(order) |-> buf[order[i]]]

\* get_chunks_by_range(start_chunk_id, end_chunk_id)
get_chunks_by_range(buf, start_chunk_id, end_chunk_id) ==
    LET \* "for cid in range(start_chunk_id, end_chunk_id + 1) if cid in self.chunk_buffer"
        InBuffer(cid) == cid \in DOMAIN buf
        order == SelectSeq([i \in 1..(end_chunk_id - start_chunk_id + 1) |->
                               start_chunk_id + i - 1], InBuffer)
    IN  [i \in 1..Len(order) |-> buf[order[i]]]

\* the cap on speech_segments, applied after an append
limit_segments(segs) ==
    IF Len(segs) > MAX_SPEECH_SEGMENTS THEN Tail(segs) ELSE segs

\* create_speech_segment: [speech_segments, current_segment]
create_speech_segment(segs, cur, uid, start_chunk_id, start_time) ==
    [speech_segments |->
        IF cur # <<>>
        THEN limit_segments(Append(segs, finalize(cur[1], start_chunk_id - 1, start_time)))
        ELSE segs,
     current_segment |-> <<SpeechSegment(uid, start_chunk_id, start_time)>>]

\* finalize_current_segment: [speech_segments, current_segment, segment (<<>> for None)]
finalize_current_segment(segs, cur, end_chunk_id, end_time) ==
    IF cur # <<>>
    THEN LET segment == finalize(cur[1], end_chunk_id, end_time)
         IN  [speech_segments |-> limit_segments(Append(segs, segment)),
              current_segment |-> <<>>,
              segment |-> <<segment>>]
    ELSE [speech_segments |-> segs, current_segment |-> cur, segment |-> <<>>]

\* get_temporary_transcription_chunks
get_temporary_transcription_chunks(buf, cur, nid) ==
    IF cur = <<>> THEN <<>>
    ELSE get_chunks_by_range(buf,
            Max(cur[1].start_chunk_id, nid - TEMPORARY_TRANSCRIPTION_INTERVAL), nid - 1)

\* len(b''.join(chunk.audio_data for chunk in chunks)), summed by halves
RECURSIVE SumLen(_)
SumLen(chunks) ==
    IF chunks = <<>> THEN 0
    ELSE IF Len(chunks) = 1 THEN ByteLen(chunks[1].audio_data)
    ELSE LET h == Len(chunks) \div 2
         IN  SumLen(SubSeq(chunks, 1, h)) + SumLen(SubSeq(chunks, h + 1, Len(chunks)))

\* len(get_committed_audio_data(segment))
committed_audio_length(buf, segment, nid) ==
    SumLen(get_chunks_by_range(buf, segment.start_chunk_id, nid - 1))

(***************************************************************************)
(* main.py, websocket_audio: the frames one binary payload is cut into     *)
(***************************************************************************)
\* the pieces process_audio_chunk is called with for payload `msg` of n bytes
normalize_unpadded(msg, n) ==
    IF n = 0 THEN <<>>
    ELSE IF n <= AUDIO_CHUNK_SIZE THEN <<Bytes(msg, 0, n, 0)>>
    ELSE [i \in 1..(n \div AUDIO_CHUNK_SIZE) |->
             Bytes(msg, (i - 1) * AUDIO_CHUNK_SIZE, i * AUDIO_CHUNK_SIZE, 0)]

normalize_payload(msg, n) ==
    IF n = 0 THEN <<>>
    ELSE IF n = AUDIO_CHUNK_SIZE THEN <<Bytes(msg, 0, n, 0)>>
    ELSE IF n < AUDIO_CHUNK_SIZE THEN <<Bytes(msg, 0, n, AUDIO_CHUNK_SIZE - n)>>
    ELSE LET \* range(0, len(audio_data) - expected_size + 1, expected_size)
             count == ((n - AUDIO_CHUNK_SIZE) \div AUDIO_CHUNK_SIZE) + 1
             slice(k) == Bytes(msg, (k - 1) * AUDIO_CHUNK_SIZE,
                               Min(k * AUDIO_CHUNK_SIZE, n), 0)
             Whole(b) == ByteLen(b) = AUDIO_CHUNK_SIZE
         IN  SelectSeq([k \in 1..count |-> slice(k)], Whole)

(***************************************************************************)
(* vad_processor_manager.py: VADProcessorManager.process_vad               *)
(***************************************************************************)
ChunkIds(chunks) == {chunks[i].chunk_id : i \in 1..Len(chunks)}

\* "for chunk in recent_chunks: if chunk.chunk_id not in [...]: append"
RECURSIVE accumulate(_, _)
accumulate(acc, recent) ==
    IF recent = <<>> THEN acc
    ELSE IF Head(recent).chunk_id \in ChunkIds(acc)
         THEN accumulate(acc, Tail(recent))
         ELSE accumulate(Append(acc, Head(recent)), Tail(recent))

\* chunk_accumulator.sort(key=lambda x: x.chunk_id)
sort_by_chunk_id(chunks) ==
    LET order == SetToSortedSeq(ChunkIds(chunks))
        at(cid) == CHOOSE i \in 1..Len(chunks) : chunks[i].chunk_id = cid
    IN  [k \in 1..Len(order) |-> chunks[at(order[k])]]

\* the two counters after a verdict, the one not incremented left as it is
smooth_counts_without_decay(sp, si, W, is_speech) ==
    IF is_speech
    THEN [speech_count |-> Min(sp + 1, W), silence_count |-> si]
    ELSE [speech_count |-> sp, silence_count |-> Min(si + 1, W)]

\* the two counters after a verdict, clamped to the smoothing window W
smooth_counts(sp, si, W, is_speech) ==
    IF is_speech
    THEN [speech_count |-> Min(sp + 1, W), silence_count |-> Max(0, si - 1)]
    ELSE [speech_count |-> Max(0, sp - 1), silence_count |-> Min(si + 1, W)]

\* the chain with an end branch that does not wait for the smoothing window
vad_case_unsmoothed_end(speaking, sp, si, W) ==
    IF ~speaking /\ sp >= 1 THEN "start"
    ELSE IF speaking /\ si >= 1 THEN "end"
    ELSE IF speaking /\ sp > 0 THEN "continue"
    ELSE IF ~speaking /\ si >= W THEN "quiet"
    ELSE "none"

\* the chain with a start branch that does not wait for a speech verdict
vad_case_any_window(speaking, sp, si, W) ==
    IF ~speaking /\ sp >= 0 THEN "start"
    ELSE IF speaking /\ sp > 0 THEN "continue"
    ELSE IF speaking /\ si >= W THEN "end"
    ELSE IF ~speaking /\ si >= W THEN "quiet"
    ELSE "none"

vad_case(speaking, sp, si, W) ==
    IF ~speaking /\ sp >= 1 THEN "start"
    ELSE IF speaking /\ sp > 0 THEN "continue"
    ELSE IF speaking /\ si >= W THEN "end"
    ELSE IF ~speaking /\ si >= W THEN "quiet"
    ELSE "none"

\* current_vad_threshold after the branch `case`, without any cap
adjust_threshold_uncapped(case, th) ==
    IF case = "start" THEN th + VAD_THRESHOLD_STEP
    ELSE IF case = "continue" THEN th + (VAD_THRESHOLD_STEP * 3) \div 10
    ELSE IF case \in {"end", "quiet"} THEN VAD_THRESHOLD_MIN
    ELSE th

\* current_vad_threshold after the branch `case`, boundary protection included
adjust_threshold(case, th) ==
    LET stepped ==
            IF case = "start" THEN Min(th + VAD_THRESHOLD_STEP, VAD_THRESHOLD_MAX)
            ELSE IF case = "continue"
                 THEN Min(th + (VAD_THRESHOLD_STEP * 3) \div 10, VAD_THRESHOLD_MAX)
            ELSE IF case \in {"end", "quiet"} THEN VAD_THRESHOLD_MIN
            ELSE th
    IN  Max(VAD_THRESHOLD_MIN, Min(VAD_THRESHOLD_MAX, stepped))

\* what process_vad leaves when it returns before evaluating a window
NoWindow(acc) ==
    [chunk_accumulator |-> acc, vad_is_speaking |-> vad_is_speaking,
     speech_count |-> speech_count, silence_count |-> silence_count,
     current_vad_threshold |-> current_vad_threshold,
     state_changed |-> FALSE, speech_start_id |-> <<>>, speech_end_id |-> <<>>,
     evaluated |-> FALSE, case |-> "none", window |-> <<>>]

\* the except branch with the window counted as one of silence
engine_raised_as_silence(ids) ==
    [NoWindow(<<>>) EXCEPT
        !.silence_count = Min(silence_count + 1, VAD_SMOOTHING_WINDOW),
        !.evaluated = TRUE, !.window = ids]

\* "except Exception": the engine raised on the window of chunk ids `ids`, before
\* the counters were touched; the threshold is clamped and the accumulator cleared
engine_raised(ids) ==
    [NoWindow(<<>>) EXCEPT
        !.current_vad_threshold =
            Max(VAD_THRESHOLD_MIN, Min(VAD_THRESHOLD_MAX, current_vad_threshold)),
        !.evaluated = TRUE, !.window = ids]

\* an accumulator from which the evaluated window is not removed
surplus_with_window(acc2) == acc2

\* chunk_accumulator = chunk_accumulator[processing_window:]
surplus(acc2) == SubSeq(acc2, processing_window + 1, Len(acc2))

\* the rest of process_vad once the window is cut from the sorted accumulator acc2
evaluate_window(acc2, verdict) ==
    LET window == SubSeq(acc2, 1, processing_window)
        rest == surplus(acc2)
        cnt == smooth_counts(speech_count, silence_count, VAD_SMOOTHING_WINDOW,
                             verdict = "speech")
        case == vad_case(vad_is_speaking, cnt.speech_count, cnt.silence_count,
                         VAD_SMOOTHING_WINDOW)
    IN  IF verdict = "error"
        THEN engine_raised([i \in 1..Len(window) |-> window[i].chunk_id])
        ELSE [chunk_accumulator |-> rest,
              vad_is_speaking |-> IF case = "start" THEN TRUE
                                  ELSE IF case = "end" THEN FALSE
                                  ELSE vad_is_speaking,
              speech_count |-> cnt.speech_count,
              silence_count |-> cnt.silence_count,
              current_vad_threshold |-> adjust_threshold(case, current_vad_threshold),
              state_changed |-> case \in {"start", "end"},
              speech_start_id |-> IF case = "start" THEN <<acc2[1].chunk_id>> ELSE <<>>,
              speech_end_id |-> IF case = "end" THEN <<Last(acc2).chunk_id>> ELSE <<>>,
              evaluated |-> TRUE,
              case |-> case,
              window |-> [i \in 1..Len(window) |-> window[i].chunk_id]]

\* process_vad with the engine answering `verdict` if it is called.
\* speech_start_id / speech_end_id: <<>> for None, <<id>> otherwise.
process_vad(verdict) ==
    LET recent == get_chunks_for_vad(chunk_buffer, INITIAL_VAD_SMOOTHING_WINDOW)
    IN  IF recent = <<>> THEN NoWindow(chunk_accumulator)
        ELSE Only({IF Len(acc1) < processing_window THEN NoWindow(acc1)
                   ELSE evaluate_window(sort_by_chunk_id(acc1), verdict) :
                   acc1 \in {accumulate(chunk_accumulator, recent)}})

(***************************************************************************)
(* transcription_manager.py and connection_manager.py                      *)
(***************************************************************************)
\* transcribe_temporary on audio of `len` bytes: TRUE iff a non-empty text comes back
transcribe_temporary(len, asr) ==
    IF len = 0 \/ len < AUDIO_CHUNK_SIZE THEN FALSE ELSE asr = "text"

\* transcribe_committed with a handler that returns the text of the exception
transcribe_committed_error_text(len, asr) ==
    IF len = 0 \/ len < AUDIO_CHUNK_SIZE * 2 THEN FALSE ELSE asr # "empty"

\* transcribe_committed on audio of `len` bytes: TRUE iff a non-empty text comes back
transcribe_committed(len, asr) ==
    IF len = 0 \/ len < AUDIO_CHUNK_SIZE * 2 THEN FALSE ELSE asr = "text"

\* duration: in units of 1 / bytes_per_sec seconds, the time one byte of PCM lasts
Message(type, seg, part, first, last, len, dur, t) ==
    [type |-> type, uid |-> seg.uid, part |-> part,
     start_chunk_id |-> first, end_chunk_id |-> last,
     audio_length |-> len, duration |-> dur, timestamp |-> t]

bytes_per_sec == AUDIO_SAMPLE_RATE * 2
max_bytes == MAX_SEGMENT_DURATION * bytes_per_sec

\* process_committed_transcription up to its first await: the job it starts on `segment`
\* at time t ([] when it returns at once).  next: the 0-based part to transcribe next.
new_commit_job(segment, len, t) ==
    IF len < AUDIO_CHUNK_SIZE * 2 THEN <<>>
    ELSE LET \* segment_duration = min(actual_duration, segment.duration)
             segment_duration == Min(len, duration(segment, t) * bytes_per_sec)
         IN  IF segment_duration <= max_bytes
             THEN <<[segment |-> segment, audio_length |-> len,
                     duration |-> segment_duration, split |-> FALSE,
                     num |-> 1, next |-> 0]>>
             ELSE <<[segment |-> segment, audio_length |-> len,
                     duration |-> segment_duration, split |-> TRUE,
                     num |-> (len + max_bytes - 1) \div max_bytes, next |-> 0]>>

\* suffix=f"_part_{i}": the index itself
part_suffix_zero_based(i) == i

\* suffix=f"_part_{i+1}"
part_suffix(i) == i + 1

\* a sub-segment that always takes max_bytes
sub_end_byte_unclamped(start_byte, len) == start_byte + max_bytes

\* end_byte = min(start_byte + max_bytes, len(audio_data))
sub_end_byte(start_byte, len) == Min(start_byte + max_bytes, len)

\* one pass of the body of process_committed_transcription: transcribe part job.next with
\* the engine answering `asr`, and call send_json if a text came back.
\* [job, outbox]: the job that remains (<<>> when the coroutine returns) and the send awaited.
commit_advance(jobs, asr, t) ==
    IF jobs = <<>> THEN [job |-> <<>>, outbox |-> {}, failed |-> {}]
    ELSE LET job == jobs[1]
             start_byte == job.next * max_bytes
             end_byte == sub_end_byte(start_byte, job.audio_length)
             sub_len == IF job.split THEN end_byte - start_byte ELSE job.audio_length
             ok == transcribe_committed(sub_len, asr)
             msg == Message("committed_output", job.segment,
                            IF job.split THEN part_suffix(job.next) ELSE 0,
                            job.segment.start_chunk_id, job.segment.end_chunk_id,
                            sub_len, IF job.split THEN sub_len ELSE job.duration, t)
             more == job.split /\ job.next + 1 < job.num
         IN  [job |-> IF more THEN <<[job EXCEPT !.next = job.next + 1]>> ELSE <<>>,
              outbox |-> IF ok THEN {msg} ELSE {},
              failed |-> IF sub_len >= AUDIO_CHUNK_SIZE * 2 /\ asr = "error"
                         THEN {[kind |-> "committed", uid |-> msg.uid,
                                part |-> msg.part, time |-> t]}
                         ELSE {}]

\* send_json: the write is attempted unless client_state is DISCONNECTED
write_attempted == client_state # "DISCONNECTED"
write_fails == write_attempted /\ transport = "broken"

\* late_writes after a send_json call that gets to its write iff `sending`
written(sending) ==
    IF sending /\ write_attempted
    THEN IF late_writes # <<>> THEN <<late_writes[1] + 1>>
         ELSE IF write_fails THEN <<0>> ELSE <<>>
    ELSE late_writes

\* vad_loop runs its next iteration only when the previous one has returned: every
\* process_committed_transcription, process_temporary_transcription and send_json in
\* it is awaited
LoopReadyDetached == vad_pc \in {"idle", "commit", "tentative"}

LoopReady == vad_pc = "idle"

\* "if user_speaking and current_time - last_temporary_transcription_time >= 1.0",
\* without the test of the time
tentative_due_unpaced(user_speaking, t, last) == user_speaking

tentative_due(user_speaking, t, last) == user_speaking /\ t - last >= 1

\* saved_temporary_transcription_text that is never reset
accumulated_text_kept(saved, committing, tentative, cur) ==
    IF tentative THEN Append(saved, cur[1].uid) ELSE saved

\* saved_temporary_transcription_text after an iteration of vad_loop: set to "" when
\* a segment was finalized, "+= transcript" when a tentative text came back
accumulated_text(saved, committing, tentative, cur) ==
    IF committing THEN <<>>
    ELSE IF tentative THEN Append(saved, cur[1].uid)
    ELSE saved

LogWindow(r, verdict) ==
    IF ~r.evaluated THEN vad_log
    ELSE LET e == [verdict |-> verdict, case |-> r.case, W |-> VAD_SMOOTHING_WINDOW]
             l == Append(vad_log, e)
         IN  IF Len(l) > MaxLog THEN Tail(l) ELSE l

\* One iteration of vad_loop, from process_vad to its first await (or to the sleep
\* at its end).  verdict: what the VAD engine does if a window is evaluated;
\* asr: what the ASR engine does if it is called.
VadTick(verdict, asr) ==
    /\ is_active
    /\ LoopReady
    /\ engine_call \in {<<>>, <<[verdict |-> verdict, asr |-> asr]>>}
    /\ engine_call' = <<>>
    /\ \E r \in {process_vad(verdict)} : LET
           user_speaking == r.vad_is_speaking
           starts == r.state_changed /\ r.speech_start_id # <<>> /\ user_speaking
           ends == r.state_changed /\ r.speech_end_id # <<>> /\ ~user_speaking
           \* chunk_buffer[speech_start_id] / chunk_buffer[speech_end_id]
           key == IF starts THEN r.speech_start_id[1]
                  ELSE IF ends THEN r.speech_end_id[1] ELSE 0
           key_error == (starts \/ ends) /\ key \notin DOMAIN chunk_buffer
           created == create_speech_segment(speech_segments, current_segment,
                         next_segment_uid, key, chunk_buffer[key].timestamp)
           finalized == finalize_current_segment(speech_segments, current_segment,
                         key, chunk_buffer[key].timestamp)
           segs1 == IF starts THEN created.speech_segments
                    ELSE IF ends THEN finalized.speech_segments ELSE speech_segments
           cur1 == IF starts THEN created.current_segment
                   ELSE IF ends THEN finalized.current_segment ELSE current_segment
           committing == ends /\ finalized.segment # <<>>
           audio_length == committed_audio_length(chunk_buffer, finalized.segment[1],
                                                  next_chunk_id)
           job0 == IF committing
                   THEN new_commit_job(finalized.segment[1], audio_length, now)
                   ELSE <<>>
           adv == commit_advance(job0, asr, now)
           \* the periodic tentative transcription
           due == tentative_due(user_speaking, now, last_temporary_transcription_time)
           chunks == get_temporary_transcription_chunks(chunk_buffer, cur1, next_chunk_id)
           tentative == /\ due /\ r.vad_is_speaking /\ cur1 # <<>> /\ chunks # <<>>
                        /\ transcribe_temporary(SumLen(chunks), asr)
           tentative_failed == /\ due /\ r.vad_is_speaking /\ cur1 # <<>>
                               /\ chunks # <<>> /\ SumLen(chunks) >= AUDIO_CHUNK_SIZE
                               /\ asr = "error"
           tmsg == Message("tentative_output", cur1[1], 0, chunks[1].chunk_id,
                           Last(chunks).chunk_id, SumLen(chunks),
                           Len(chunks) * AUDIO_CHUNK_SIZE, now)
           speech_window == r.evaluated /\ verdict = "speech"
       IN  /\ vad_is_speaking' = r.vad_is_speaking
           /\ speech_count' = r.speech_count
           /\ silence_count' = r.silence_count
           /\ chunk_accumulator' = r.chunk_accumulator
           /\ current_vad_threshold' = r.current_vad_threshold
           /\ vad_log' = LogWindow(r, verdict)
           /\ vad_passed' = IF r.evaluated THEN <<Last(r.window)>> ELSE vad_passed
           /\ UNCHANGED <<chunk_buffer, next_chunk_id, last_cleanup_time>>
           /\ IF key_error
              THEN \* KeyError; the handler's own logger.error raises NameError
                   \* (traceback is not imported), which ends the task
                   /\ vad_pc' = "dead"
                   /\ UNCHANGED <<speech_segments, current_segment, next_segment_uid,
                                  commit_job, outbox, last_temporary_transcription_time,
                                  saved_temporary_transcription_text, taskHistVars,
                                  asr_failures>>
              ELSE /\ speech_segments' = segs1
                   /\ current_segment' = cur1
                   /\ next_segment_uid' = IF starts THEN next_segment_uid + 1
                                          ELSE next_segment_uid
                   /\ commit_job' = IF committing THEN adv.job ELSE commit_job
                   /\ outbox' = outbox \cup (IF committing THEN adv.outbox ELSE {})
                                       \cup (IF tentative THEN {tmsg} ELSE {})
                   /\ saved_temporary_transcription_text' =
                        accumulated_text(saved_temporary_transcription_text,
                                         committing, tentative, cur1)
                   /\ last_temporary_transcription_time' =
                        IF due /\ ~tentative THEN now
                        ELSE last_temporary_transcription_time
                   /\ vad_pc' = IF committing /\ (adv.job # <<>> \/ adv.outbox # {})
                                THEN "commit"
                                ELSE IF tentative THEN "tentative"
                                ELSE vad_pc
                   /\ tentative_attempts' =
                        IF due
                        THEN Append(tentative_attempts,
                                    [time |-> now, speaking |-> r.vad_is_speaking,
                                     open |-> cur1 # <<>>])
                        ELSE tentative_attempts
                   /\ speech_windows' =
                        IF starts
                        THEN Append(speech_windows, IF speech_window THEN 1 ELSE 0)
                        ELSE IF speech_window /\ current_segment # <<>>
                        THEN [speech_windows EXCEPT ![current_segment[1].uid] = @ + 1]
                        ELSE speech_windows
                   /\ asr_failures' =
                        asr_failures
                        \cup (IF committing THEN adv.failed ELSE {})
                        \cup (IF tentative_failed
                              THEN {[kind |-> "tentative", uid |-> cur1[1].uid,
                                     part |-> 0, time |-> now]}
                              ELSE {})
                   /\ last_commit' =
                        IF committing
                        THEN <<[segment |-> finalized.segment[1],
                                audio_length |-> audio_length, job |-> job0]>>
                        ELSE last_commit
    /\ UNCHANGED <<batchVars, asrVars, registryVars, now, transport, client_state, ingress_pc, is_active,
                   VAD_SMOOTHING_WINDOW, sent, admitted_ids, msg_count, last_payload,
                   config_updates, last_activity, receive_started, late_writes, configVars>>

\* The VAD task, in an iteration of vad_loop, enters a call of the VAD engine
\* (is_voice_active in process_vad) or of the ASR engine (asr_model.transcribe in
\* _transcribe).  Both are plain calls made on the event loop thread, with no
\* executor and no await: until the call returns no other coroutine of the process
\* runs, and the iteration then goes on as VadTick with the call's outcome.  Wall-clock
\* time passes meanwhile.
EngineCallStarts(verdict, asr) ==
    /\ is_active
    /\ LoopReady
    /\ engine_call = <<>>
    /\ \E r \in {process_vad(verdict)} :
          \/ r.evaluated
          \/ tentative_due(r.vad_is_speaking, now, last_temporary_transcription_time)
    /\ engine_call' = <<[verdict |-> verdict, asr |-> asr]>>
    /\ UNCHANGED <<batchVars, asrVars, registryVars, now, transport, client_state, ingress_pc, is_active,
                   VAD_SMOOTHING_WINDOW, bufferVars, vadVars, taskVars, sent,
                   ingressHistVars, config_updates, vad_log, last_activity, receive_started,
                   taskHistVars, engineHistVars, late_writes, configVars>>

\* An awaited send_json of the VAD task returns, and the coroutine that awaited it
\* runs on to its next await (or, with no send pending, the commit job transcribes its
\* next part).
AfterSend(sending, m, asr) ==
    LET continues == ~sending \/ m.type = "committed_output"
        adv == IF continues THEN commit_advance(commit_job, asr, now)
               ELSE [job |-> commit_job, outbox |-> {}, failed |-> {}]
        out1 == (IF sending THEN outbox \ {m} ELSE outbox) \cup adv.outbox
    IN  /\ sent' = IF sending /\ write_attempted /\ ~write_fails
                   THEN Append(sent, m) ELSE sent
        /\ is_active' = IF sending /\ write_fails THEN FALSE ELSE is_active
        /\ late_writes' = written(sending)
        /\ asr_failures' = asr_failures \cup adv.failed
        /\ outbox' = out1
        /\ commit_job' = adv.job
        /\ last_temporary_transcription_time' =
             IF sending /\ m.type = "tentative_output" THEN m.timestamp
             ELSE last_temporary_transcription_time
        /\ vad_pc' = IF out1 = {} /\ adv.job = <<>> THEN "idle"
                     ELSE IF adv.job # <<>> THEN "commit" ELSE vad_pc

SendCompletes(asr) ==
    /\ vad_pc \in {"commit", "tentative"}
    /\ engine_call = <<>>
    /\ IF outbox = {}
       THEN AfterSend(FALSE, [type |-> "none"], asr)
       ELSE \E m \in outbox : AfterSend(TRUE, m, asr)
    /\ UNCHANGED <<batchVars, asrVars, registryVars, now, transport, client_state, ingress_pc, VAD_SMOOTHING_WINDOW,
                   bufferVars, vadVars, saved_temporary_transcription_text,
                   next_segment_uid, admitted_ids, msg_count, last_payload,
                   config_updates, vad_log, last_activity, receive_started, engine_call, taskHistVars,
                   vad_passed,
                   configVars>>

(***************************************************************************)
(* main.py: websocket_audio, the receive loop                              *)
(***************************************************************************)
\* process_audio_chunk on each piece in turn; bm carries the manager's fields and
\* the ids given so far
RECURSIVE add_all(_, _, _)
add_all(bm, pieces, t) ==
    IF pieces = <<>> THEN bm
    ELSE IF Len(pieces) = 1
    THEN Only({[chunk_buffer |-> a.chunk_buffer,
                speech_segments |-> a.speech_segments,
                last_cleanup_time |-> a.last_cleanup_time,
                next_chunk_id |-> a.next_chunk_id,
                ids |-> Append(bm.ids, a.chunk_id)] :
               a \in {add_audio_chunk(bm, pieces[1], t)}})
    ELSE \* the first half of the pieces in order, then the second half
         LET h == Len(pieces) \div 2
         IN  Only({add_all(first, SubSeq(pieces, h + 1, Len(pieces)), t) :
                   first \in {add_all(bm, SubSeq(pieces, 1, h), t)}})

\* a message can be taken off the socket: the receive loop runs, the peer is there,
\* and the event loop thread is not inside an engine call
receiving == ingress_pc = "recv" /\ is_active /\ transport = "open" /\ engine_call = <<>>

\* a binary message of n bytes arrives
ReceiveBinary(n) ==
    /\ receiving
    /\ LET msg == msg_count + 1
           bm == add_all([chunk_buffer |-> chunk_buffer,
                          speech_segments |-> speech_segments,
                          last_cleanup_time |-> last_cleanup_time,
                          next_chunk_id |-> next_chunk_id, ids |-> <<>>],
                         normalize_payload(msg, n), now)
       IN  /\ chunk_buffer' = bm.chunk_buffer
           /\ speech_segments' = bm.speech_segments
           /\ last_cleanup_time' = bm.last_cleanup_time
           /\ next_chunk_id' = bm.next_chunk_id
           /\ admitted_ids' = admitted_ids \o bm.ids
           /\ msg_count' = msg
           /\ last_payload' = [msg |-> msg, n |-> n, ids |-> bm.ids,
                               evicted |-> DOMAIN chunk_buffer \ DOMAIN bm.chunk_buffer]
    /\ last_activity' = now
    /\ receive_started' = now
    /\ UNCHANGED <<batchVars, asrVars, registryVars, now, transport, client_state, ingress_pc, is_active,
                   VAD_SMOOTHING_WINDOW, current_segment, vadVars, taskVars, sent,
                   config_updates, vad_log, engine_call, taskHistVars, engineHistVars, late_writes,
                   configVars>>

\* A value of the JSON object a vad_config message carries in "config".
\* kind: "int" | "float" (a number with a fractional part) | "str" (not a number) |
\* "absent"; value: the number (speech_threshold in hundredths)
JsonValue(kind, value) == [kind |-> kind, value |-> value]
Absent == JsonValue("absent", 0)

\* the config of a message that sets smoothing_window only
WindowConfig(w) == [speech_threshold |-> Absent, smoothing_window |-> JsonValue("int", w)]

\* the configs of the vad_config messages a client sends: well-formed ones, ones
\* with a value of the wrong type, and ones with a value out of range
ConfigMessages ==
    {WindowConfig(3),
     [speech_threshold |-> JsonValue("float", 50), smoothing_window |-> Absent],
     WindowConfig(0),
     [speech_threshold |-> JsonValue("float", 150), smoothing_window |-> Absent],
     [speech_threshold |-> Absent, smoothing_window |-> JsonValue("str", 0)],
     [speech_threshold |-> JsonValue("str", 0), smoothing_window |-> Absent]}

\* VADConfig(**config): <<>> for a ValidationError, <<model>> otherwise.  The fields
\* are declared float and int with defaults and no constraint.
VADConfig(config) ==
    LET st == config.speech_threshold
        sw == config.smoothing_window
    IN  IF st.kind = "str" \/ sw.kind \in {"str", "float"} THEN <<>>
        ELSE <<[speech_threshold |-> IF st.kind = "absent" THEN 60 ELSE st.value,
                smoothing_window |-> IF sw.kind = "absent"
                                     THEN INITIAL_VAD_SMOOTHING_WINDOW ELSE sw.value]>>

\* update_vad_config(config) on the process-wide AppConfig; nothing is written when
\* VADConfig raised
update_vad_config(vad_config) ==
    IF vad_config = <<>>
    THEN UNCHANGED <<VAD_SPEECH_THRESHOLD, VAD_SMOOTHING_WINDOW>>
    ELSE /\ VAD_SPEECH_THRESHOLD' = vad_config[1].speech_threshold
         /\ VAD_SMOOTHING_WINDOW' = vad_config[1].smoothing_window

\* a vad_config text message arrives: VADConfig(**config), update_vad_config, and the
\* config_updated reply; a ValidationError is answered by the error reply of the
\* handler's "except Exception".  The reply is not a transcript output and is not
\* recorded in sent.
ReceiveVadConfig(config) ==
    /\ receiving
    /\ update_vad_config(VADConfig(config))
    /\ last_reply' = <<[type |-> IF VADConfig(config) = <<>> THEN "error"
                                  ELSE "config_updated",
                        config |-> config]>>
    /\ late_writes' = written(TRUE)
    /\ last_activity' = now
    /\ receive_started' = now
    /\ config_updates' = config_updates + 1
    /\ UNCHANGED <<batchVars, asrVars, registryVars, now, transport, client_state, ingress_pc, is_active, bufferVars,
                   vadVars, taskVars, sent, ingressHistVars, vad_log, engine_call,
                   taskHistVars, engineHistVars, other_config_updates>>

\* a vad_config message on another connection of the process, or POST /vad/config
OtherConnectionVadConfig(config) ==
    /\ engine_call = <<>>
    /\ update_vad_config(VADConfig(config))
    /\ other_config_updates' = other_config_updates + 1
    /\ UNCHANGED <<batchVars, asrVars, registryVars, now, transport, client_state, ingress_pc, is_active, bufferVars,
                   vadVars, taskVars, sent, ingressHistVars, config_updates, vad_log,
                   last_activity, receive_started, engine_call, taskHistVars, engineHistVars, late_writes, last_reply>>

\* a cancel() that the task never sees
cancel_ignored(task) == task

\* vad_task.cancel() on the task [vad_pc, outbox, commit_job]: CancelledError is raised
\* at the await the task is suspended in; no handler on the way catches it before
\* vad_loop's own, which leaves the loop
\* ("none": vad_task is still None, "if self.vad_task" skips the cancel)
cancel(task) ==
    [vad_pc |-> IF task.vad_pc \in {"dead", "none"} THEN task.vad_pc ELSE "cancelled",
     outbox |-> {}, commit_job |-> <<>>]

\* the key websocket_audio gives the connection in active_connections
client_id == "client"

\* cleanup_client_resources that leaves the entry in active_connections
cleanup_client_resources_keeping_entry(connections) == connections

\* cleanup_client_resources: "del active_connections[client_id]" in its finally
cleanup_client_resources(connections) == connections \ {client_id}

\* the finally block: cleanup_client_resources "if client_id in active_connections",
\* then websocket.close
Cleanup ==
    /\ IF client_id \in active_connections
       THEN /\ is_active' = FALSE
            /\ \E task \in {cancel([vad_pc |-> vad_pc, outbox |-> outbox,
                                    commit_job |-> commit_job])} :
                  /\ vad_pc' = task.vad_pc
                  /\ outbox' = task.outbox
                  /\ commit_job' = task.commit_job
            /\ chunk_buffer' = <<>>
            /\ speech_segments' = <<>>
            /\ current_segment' = <<>>
            /\ active_connections' = cleanup_client_resources(active_connections)
            /\ cleanups' = cleanups + 1
       ELSE UNCHANGED <<is_active, vad_pc, outbox, commit_job, chunk_buffer,
                        speech_segments, current_segment, registryVars>>
    /\ client_state' = "DISCONNECTED"
    /\ ingress_pc' = "closed"
    /\ UNCHANGED <<batchVars, asrVars, now, transport, VAD_SMOOTHING_WINDOW, next_chunk_id,
                   last_cleanup_time, vadVars, last_temporary_transcription_time,
                   saved_temporary_transcription_text, next_segment_uid, sent,
                   ingressHistVars, config_updates, vad_log, last_activity, receive_started,
                   engine_call, taskHistVars, engineHistVars, VAD_SPEECH_THRESHOLD,
                   other_config_updates>>

\* a close message arrives, or receive() reports websocket.disconnect
ReceiveClose ==
    /\ ingress_pc = "recv" /\ is_active /\ engine_call = <<>>
    /\ Cleanup
    /\ UNCHANGED <<late_writes, last_reply>>

\* "while manager.is_active" ends the loop after a failed send
IngressStops ==
    /\ ingress_pc = "recv" /\ ~is_active /\ engine_call = <<>>
    /\ Cleanup
    /\ UNCHANGED <<late_writes, last_reply>>

\* the test at a receive timeout with every timeout taken for an idle one
idle_expired_at_once(t, last) == TRUE

\* "if time.time() - manager.last_activity > 30.0", at a receive timeout at time t:
\* idle_expired when the test can pass, idle_pending when it can fail.  Handling a
\* message and re-arming the wait take the loop a moment that whole seconds do not
\* show, so the timeout that falls IDLE_TIMEOUT s after the last message by the
\* model's clock falls at or a little after it by the real one: either outcome.
idle_expired(t, last) == t - last >= IDLE_TIMEOUT

idle_pending(t, last) == t - last <= IDLE_TIMEOUT

\* wait_for(websocket.receive(), timeout=5.0) times out and the test of last_activity
\* fails: "continue", a new wait begins
ReceiveTimeout ==
    /\ ingress_pc = "recv" /\ is_active /\ engine_call = <<>>
    /\ now - receive_started >= RECEIVE_TIMEOUT
    /\ idle_pending(now, last_activity)
    /\ receive_started' = now
    /\ UNCHANGED <<batchVars, asrVars, registryVars, now, transport, client_state, ingress_pc, is_active,
                   VAD_SMOOTHING_WINDOW, bufferVars, vadVars, taskVars, sent,
                   ingressHistVars, config_updates, vad_log, last_activity,
                   engine_call, taskHistVars, engineHistVars, late_writes, configVars>>

\* wait_for(websocket.receive(), timeout=5.0) times out with more than 30 s since the
\* last message: the error 408 is sent and the loop is left.  The loop tests is_active
\* before it waits, not when the wait ends.
IdleTimeout ==
    /\ ingress_pc = "recv" /\ engine_call = <<>>
    /\ now - receive_started >= RECEIVE_TIMEOUT
    /\ idle_expired(now, last_activity)
    /\ late_writes' = written(TRUE)
    /\ last_reply' = IF write_attempted /\ ~write_fails
                     THEN <<[type |-> "error", code |-> 408]>> ELSE last_reply
    /\ Cleanup

\* the peer goes away
TransportBreaks ==
    /\ transport = "open" /\ ingress_pc = "recv"
    /\ transport' = "broken"
    /\ UNCHANGED <<batchVars, asrVars, registryVars, now, client_state, ingress_pc, is_active, VAD_SMOOTHING_WINDOW,
                   bufferVars, vadVars, taskVars, sent, ingressHistVars,
                   config_updates, vad_log, last_activity, receive_started, engine_call, taskHistVars, engineHistVars,
                   late_writes, configVars>>

\* "if not asr_model or not vad_processor": the error 503 is sent and the handler
\* returns before the VAD task exists
ModelsNotLoaded ==
    /\ ingress_pc = "accepted"
    /\ late_writes' = written(TRUE)
    /\ last_reply' = IF write_attempted /\ ~write_fails
                     THEN <<[type |-> "error", code |-> 503]>> ELSE last_reply
    /\ Cleanup

\* the models are loaded: start_vad_processing creates the VAD task and the receive
\* loop is entered
StartVadProcessing ==
    /\ ingress_pc = "accepted"
    /\ ingress_pc' = "recv"
    /\ vad_pc' = "idle"
    /\ receive_started' = now
    /\ UNCHANGED <<batchVars, asrVars, registryVars, now, transport, client_state, is_active,
                   VAD_SMOOTHING_WINDOW, bufferVars, vadVars,
                   last_temporary_transcription_time,
                   saved_temporary_transcription_text, commit_job, outbox,
                   next_segment_uid, sent, ingressHistVars, config_updates, vad_log,
                   last_activity, engine_call, taskHistVars, engineHistVars,
                   late_writes, configVars>>

\* an exception that no handler inside the loop catches (the handler's task is
\* cancelled when the server stops, or a step before the loop raises) unwinds
\* websocket_audio through its finally block
UnhandledException ==
    /\ ingress_pc \in {"accepted", "recv"} /\ engine_call = <<>>
    /\ Cleanup
    /\ UNCHANGED <<late_writes, last_reply>>

\* wall-clock time passes with no audio arriving: the client keeps the connection
\* alive with ping messages, or the receive timeout has not yet counted 30 s of
\* inactivity
Advance(d) ==
    /\ ingress_pc = "recv"
    /\ now' = now + d
    /\ UNCHANGED <<batchVars, asrVars, registryVars, transport, client_state, ingress_pc, is_active,
                   VAD_SMOOTHING_WINDOW, bufferVars, vadVars, taskVars, sent,
                   ingressHistVars, config_updates, vad_log, last_activity, receive_started,
                   engine_call, taskHistVars, engineHistVars, late_writes, configVars>>

(***************************************************************************)
(* main.py: POST /transcribe/file                                          *)
(*                                                                         *)
(* Audio is measured in samples (16000 per second).  The speech segments   *)
(* that get_segments returns are the request's raw_segments: the file-wide *)
(* VAD pass, or the whole audio when the file is short or VAD is off.      *)
(***************************************************************************)
\* samples_per_sub_segment = int(AppConfig.MAX_SEGMENT_DURATION * sample_rate)
samples_per_sub_segment == MAX_SEGMENT_DURATION * AUDIO_SAMPLE_RATE

\* "> 0.1" seconds, and int(0.1 * sample_rate), in samples
min_samples == AUDIO_SAMPLE_RATE \div 10

\* cut_long_segments on one raw segment, with sub-segments of full length always
cut_long_segment_unclamped(raw, total_samples) ==
    LET len == raw.end_sample - raw.start_sample
        num_sub_segments == (len + samples_per_sub_segment - 1) \div samples_per_sub_segment
        sub(k) ==
            [original_index |-> raw.original_index,
             start_sample |-> raw.start_sample + (k - 1) * samples_per_sub_segment,
             end_sample |-> raw.start_sample + k * samples_per_sub_segment,
             is_long_segment |-> TRUE, sub_segment_index |-> k]
    IN  IF len <= samples_per_sub_segment
        THEN <<[original_index |-> raw.original_index,
                start_sample |-> raw.start_sample, end_sample |-> raw.end_sample,
                is_long_segment |-> FALSE, sub_segment_index |-> 1]>>
        ELSE [k \in 1..num_sub_segments |-> sub(k)]

\* cut_long_segments on one raw segment
cut_long_segment(raw, total_samples) ==
    LET len == raw.end_sample - raw.start_sample
        \* int(np.ceil(duration / AppConfig.MAX_SEGMENT_DURATION))
        num_sub_segments == (len + samples_per_sub_segment - 1) \div samples_per_sub_segment
        sub(k) ==
            [original_index |-> raw.original_index,
             start_sample |-> raw.start_sample + (k - 1) * samples_per_sub_segment,
             end_sample |-> Min(raw.start_sample + k * samples_per_sub_segment,
                                Min(raw.end_sample, total_samples)),
             is_long_segment |-> TRUE, sub_segment_index |-> k]
        long_enough(seg) == seg.end_sample - seg.start_sample > min_samples
    IN  IF len <= samples_per_sub_segment
        THEN <<[original_index |-> raw.original_index,
                start_sample |-> raw.start_sample, end_sample |-> raw.end_sample,
                is_long_segment |-> FALSE, sub_segment_index |-> 1]>>
        ELSE SelectSeq([k \in 1..num_sub_segments |-> sub(k)], long_enough)

\* cut_long_segments, then "segment['segment_index'] = i + 1"
RECURSIVE cut_each(_, _)
cut_each(raw_segments, total_samples) ==
    IF raw_segments = <<>> THEN <<>>
    ELSE cut_long_segment(Head(raw_segments), total_samples)
         \o cut_each(Tail(raw_segments), total_samples)

cut_long_segments(raw_segments, total_samples) ==
    LET cut == cut_each(raw_segments, total_samples)
    IN  [i \in 1..Len(cut) |->
            [segment_index |-> i, original_index |-> cut[i].original_index,
             start_sample |-> cut[i].start_sample, end_sample |-> cut[i].end_sample,
             is_long_segment |-> cut[i].is_long_segment,
             sub_segment_index |-> cut[i].sub_segment_index]]

\* transcribe_single_segment: the record it returns when the ASR engine does `asr`
transcribe_single_segment(segment, total_samples, asr) ==
    LET \* len(full_audio_tensor[start_sample:end_sample])
        len == Max(0, Min(segment.end_sample, total_samples)
                      - Min(segment.start_sample, total_samples))
    IN  [type |-> IF len < min_samples \/ asr = "error"
                  THEN "segment_error" ELSE "segment_result",
         segment_index |-> segment.segment_index]

\* asyncio.Semaphore(MAX_CONCURRENT_TRANSCRIPTIONS)
MAX_CONCURRENT_TRANSCRIPTIONS == 3

Running == {i \in 1..Len(transcription_tasks) : transcription_tasks[i].state = "running"}
Waiting == {i \in 1..Len(transcription_tasks) : transcription_tasks[i].state = "waiting"}

\* a collecting loop that takes the tasks as they complete
as_completed(collected, order) ==
    IF Len(order) > collected THEN order[collected + 1] ELSE collected + 1

\* "for task in transcription_tasks: result = await task['future']": the task
\* awaited once `collected` results have been yielded
next_awaited(collected, order) == collected + 1

\* the handler up to the point where transcribe_generator is first resumed
TranscribeFile(request) ==
    /\ batch_pc = "none"
    /\ batch_request' = <<request>>
    /\ final_segments' = cut_long_segments(request.raw_segments, request.total_samples)
    /\ batch_pc' = "initialization"
    /\ UNCHANGED <<sessionVars, asrVars, transcription_tasks, batch_lines, batch_order,
                   batch_response>>

\* yield init_message
YieldInitialization ==
    /\ batch_pc = "initialization"
    /\ batch_lines' = Append(batch_lines, [type |-> "initialization",
                                           total_segments |-> Len(final_segments)])
    /\ batch_pc' = "segments_summary"
    /\ UNCHANGED <<sessionVars, asrVars, batch_request, final_segments, transcription_tasks,
                   batch_order, batch_response>>

\* yield summary_message, then create_task(transcribe_segment(task)) for every
\* segment, up to the first "await task['future']"
YieldSegmentsSummary ==
    /\ batch_pc = "segments_summary"
    /\ batch_lines' = Append(batch_lines, [type |-> "segments_summary",
                                           total_segments |-> Len(final_segments)])
    /\ transcription_tasks' =
          [i \in 1..Len(final_segments) |-> [state |-> "waiting", result |-> <<>>]]
    /\ batch_pc' = "collect"
    /\ UNCHANGED <<sessionVars, asrVars, batch_request, final_segments, batch_order,
                   batch_response>>

\* transcribe_segment: "async with semaphore", then run_in_executor.  The tasks
\* reach the semaphore in the order they were created, and its waiters are
\* served first come, first served.
TaskStarts ==
    /\ Waiting # {}
    /\ Cardinality(Running) < MAX_CONCURRENT_TRANSCRIPTIONS
    /\ LET i == CHOOSE w \in Waiting : \A x \in Waiting : w <= x
       IN  transcription_tasks' = [transcription_tasks EXCEPT ![i].state = "running"]
    /\ UNCHANGED <<sessionVars, asrVars, batch_pc, batch_request, final_segments, batch_lines,
                   batch_order, batch_response>>

\* the executor thread of task i returns or raises: transcribe_single_segment
\* returns its record and the semaphore is released
TaskCompletes(i, asr) ==
    /\ i \in Running
    /\ transcription_tasks' =
          [transcription_tasks EXCEPT
              ![i] = [state |-> "done",
                      result |-> <<transcribe_single_segment(
                                       final_segments[i],
                                       batch_request[1].total_samples, asr)>>]]
    /\ batch_order' = Append(batch_order, i)
    /\ UNCHANGED <<sessionVars, asrVars, batch_pc, batch_request, final_segments, batch_lines,
                   batch_response>>

\* the collecting loop: the awaited task is done and its record is yielded
YieldSegment ==
    /\ batch_pc = "collect"
    /\ Len(batch_lines) - 2 < Len(transcription_tasks)
    /\ LET i == next_awaited(Len(batch_lines) - 2, batch_order)
       IN  /\ transcription_tasks[i].state = "done"
           /\ batch_lines' = Append(batch_lines, transcription_tasks[i].result[1])
    /\ UNCHANGED <<sessionVars, asrVars, batch_pc, batch_request, final_segments,
                   transcription_tasks, batch_order, batch_response>>

\* the lines of the given type among `lines`
OfType(lines, type) == SelectSeq(lines, LAMBDA r : r.type = type)

\* yield final_summary; the generator is exhausted
YieldFinalSummary ==
    /\ batch_pc = "collect"
    /\ Len(batch_lines) - 2 = Len(transcription_tasks)
    /\ batch_lines' =
          Append(batch_lines,
                 [type |-> "final_summary", total_segments |-> Len(final_segments),
                  successful_segments |-> Len(OfType(batch_lines, "segment_result")),
                  failed_segments |-> Len(OfType(batch_lines, "segment_error"))])
    /\ batch_pc' = IF batch_request[1].stream THEN "done" ELSE "aggregate"
    /\ UNCHANGED <<sessionVars, asrVars, batch_request, final_segments, transcription_tasks,
                   batch_order, batch_response>>

\* non-streaming mode: the handler has drained the generator into `results` and
\* returns the aggregated body
Aggregate ==
    /\ batch_pc = "aggregate"
    /\ LET segments_result == OfType(batch_lines, "segment_result")
       IN  batch_response' = <<[status |-> "completed",
                                segments |-> segments_result,
                                total_segments |-> Len(segments_result)]>>
    /\ batch_pc' = "done"
    /\ UNCHANGED <<sessionVars, asrVars, batch_request, final_segments, transcription_tasks,
                   batch_lines, batch_order>>

(***************************************************************************)
(* asr.py: ASRModel.transcribe and the hotwords of its prompt              *)
(***************************************************************************)
\* A hotword: a str, by the word it spells (0: none), whether it has upper-case
\* letters and whether it has white space around it.
Hotword(word, upper, spaces) == [word |-> word, upper |-> upper, spaces |-> spaces]

\* a key that orders the strings
rank(hw) == hw.word * 4 + (IF hw.upper THEN 2 ELSE 0) + (IF hw.spaces THEN 1 ELSE 0)

\* "for hw in set(hotwords)": the strings of the list, each once.  The order in which
\* a set of str is iterated is not specified; the model takes two of the orders.
SetOrders == {"ascending", "descending"}
in_order(S, order) ==
    LET ranks == SetToSortedSeq({rank(hw) : hw \in S})
        at(k) == CHOOSE hw \in S : rank(hw) = ranks[k]
    IN  IF order = "ascending" THEN [k \in 1..Len(ranks) |-> at(k)]
        ELSE [k \in 1..Len(ranks) |-> at(Len(ranks) + 1 - k)]
set_iteration(list, order) == in_order({list[i] : i \in 1..Len(list)}, order)

\* hw.strip().lower()
strip_lower(hw) == Hotword(hw.word, FALSE, FALSE)

\* max_hotwords: int = 10
max_hotwords == 10

\* _format_hotwords_prompt: the entries it puts in the prompt (none: it returns "")
format_hotwords_prompt(list, order) ==
    LET \* "if hw and isinstance(hw, str) and hw.strip()"
        kept == SelectSeq(set_iteration(list, order), LAMBDA hw : hw.word # 0)
        cleaned_hotwords == [k \in 1..Len(kept) |-> strip_lower(kept[k])]
    IN  IF Len(cleaned_hotwords) > max_hotwords
        THEN SubSeq(cleaned_hotwords, 1, max_hotwords)
        ELSE cleaned_hotwords

\* entries a caller may add to its words: another spelling of the first word, the
\* first word once more, the empty string and a blank one
ExtraHotwords ==
    {Hotword(1, TRUE, FALSE), Hotword(1, FALSE, TRUE), Hotword(1, FALSE, FALSE),
     Hotword(0, FALSE, FALSE), Hotword(0, FALSE, TRUE)}

\* the lists given as hotwords: n words in lower case, then some of the extra entries
HotwordLists ==
    {[i \in 1..n |-> Hotword(i, FALSE, FALSE)] \o in_order(extra, "ascending") :
        n \in 0..MaxHotwords, extra \in SUBSET ExtraHotwords}

\* transcribe(audio_tensor, hotwords=list) builds its instruction
Transcribe(list, order) ==
    /\ hotwords_prompt = <<>>
    /\ hotwords' = list
    /\ hotwords_prompt' = <<format_hotwords_prompt(list, order)>>
    /\ UNCHANGED <<sessionVars, batchVars>>

\* a connection whose handler stands at handler_at and whose VAD task at task_at,
\* before any frame has arrived.
\* AppConfig is shared by the whole process: an earlier session or POST /vad/config
\* may have written smoothing_window before this session starts.
InitSession(handler_at, task_at) ==
    /\ now = 1
    /\ transport = "open"
    /\ client_state = "CONNECTED"
    /\ ingress_pc = handler_at
    /\ is_active = TRUE
    /\ VAD_SMOOTHING_WINDOW \in ConfigWindows
    /\ chunk_buffer = <<>>
    /\ speech_segments = <<>>
    /\ current_segment = <<>>
    /\ next_chunk_id = 0
    /\ last_cleanup_time = 1
    /\ vad_is_speaking = FALSE
    /\ speech_count = 0
    /\ silence_count = 0
    /\ chunk_accumulator = <<>>
    /\ current_vad_threshold = VAD_INITIAL_THRESHOLD
    /\ last_temporary_transcription_time = 0
    /\ saved_temporary_transcription_text = <<>>
    /\ vad_pc = task_at
    /\ commit_job = <<>>
    /\ outbox = {}
    /\ next_segment_uid = 1
    /\ sent = <<>>
    /\ admitted_ids = <<>>
    /\ msg_count = 0
    /\ last_payload = [msg |-> 0, n |-> 0, ids |-> <<>>, evicted |-> {}]
    /\ config_updates = 0
    /\ vad_log = <<>>
    /\ VAD_SPEECH_THRESHOLD = 60
    /\ last_activity = 1
    /\ receive_started = 1
    /\ engine_call = <<>>
    /\ tentative_attempts = <<>>
    /\ speech_windows = <<>>
    /\ last_commit = <<>>
    /\ late_writes = <<>>
    /\ last_reply = <<>>
    /\ other_config_updates = 0
    /\ asr_failures = {}
    /\ vad_passed = <<>>
    /\ batch_pc = "none"
    /\ batch_request = <<>>
    /\ final_segments = <<>>
    /\ transcription_tasks = <<>>
    /\ batch_lines = <<>>
    /\ batch_order = <<>>
    /\ batch_response = <<>>
    /\ hotwords = <<>>
    /\ hotwords_prompt = <<>>
    /\ active_connections = {client_id}
    /\ cleanups = 0

\* the state once websocket_audio has accepted the connection and started vad_loop
Init == InitSession("recv", "idle")

\* the state once websocket_audio has accepted the connection, registered its
\* ConnectionManager and sent connection_established
InitAccepted == InitSession("accepted", "none")

\* A session: frames arrive one per message, the VAD task runs, time passes, the
\* peer may go away and the client may close.
Next ==
    \/ \E n \in FrameLens : msg_count < MaxMessages /\ ReceiveBinary(n)
    \/ \E v \in Verdicts, a \in AsrOutcomes : VadTick(v, a)
    \/ \E a \in AsrOutcomes : SendCompletes(a)
    \/ \E d \in TimeSteps : now + d <= MaxTime /\ Advance(d)
    \/ TransportBreaks
    \/ ReceiveClose
    \/ IngressStops
    \/ IdleTimeout

Spec == Init /\ [][Next]_vars

\* The VAD state machine under live reconfiguration: frames arrive at one instant,
\* the smoothing window may be rewritten between any two windows.
NextVad ==
    \/ \E n \in FrameLens : msg_count < MaxVadMessages /\ ReceiveBinary(n)
    \/ \E w \in ConfigWindows : config_updates < MaxConfigUpdates
                                /\ ReceiveVadConfig(WindowConfig(w))
    \/ \E v \in Verdicts, a \in AsrOutcomes : VadTick(v, a)
    \/ \E a \in AsrOutcomes : SendCompletes(a)

SpecVad == Init /\ [][NextVad]_vars

\* The VAD task and its outputs when the engine gives a verdict on every window
\* and the configuration is left alone.
NextOutputs ==
    \/ \E n \in FrameLens : msg_count < MaxVadMessages /\ ReceiveBinary(n)
    \/ \E v \in Verdicts \ {"error"}, a \in AsrOutcomes : VadTick(v, a)
    \/ \E a \in AsrOutcomes : SendCompletes(a)

SpecOutputs == Init /\ [][NextOutputs]_vars

\* The receive loop alone, with payloads of every kind of length.
NextIngress ==
    \/ \E n \in PayloadLens : msg_count < MaxPayloads /\ ReceiveBinary(n)
    \/ \E d \in TimeSteps : now + d <= MaxTime /\ Advance(d)
    \/ ReceiveClose

SpecIngress == Init /\ [][NextIngress]_vars

\* A session that settles into sustained speech: after the first MaxMessages
\* frames every window the engine sees is speech, long enough for the threshold
\* to climb from its floor to its ceiling.  The ASR engine hears no words in it.
NextSpeech ==
    \/ \E n \in FrameLens : msg_count < MaxSpeechMessages /\ ReceiveBinary(n)
    \/ \E v \in Verdicts :
          (msg_count <= MaxMessages \/ v = "speech") /\ VadTick(v, "empty")

SpecSpeech == Init /\ [][NextSpeech]_vars

\* A long utterance: single frames open it, time passes, and the client uploads
\* what it has buffered in one payload, more than MAX_SEGMENT_DURATION of audio.
\* Both engines answer every call (the ASR engine with words or with none).
NextSplit ==
    \/ \E n \in (IF msg_count < processing_window THEN FrameLens ELSE BurstLens) :
          msg_count < MaxSplitMessages /\ ReceiveBinary(n)
    \/ \E v \in Verdicts \ {"error"}, a \in AsrOutcomes \ {"error"} : VadTick(v, a)
    \/ \E a \in AsrOutcomes \ {"error"} : SendCompletes(a)
    \/ \E d \in TimeSteps : now + d <= MaxTime /\ Advance(d)

SpecSplit == Init /\ [][NextSplit]_vars

\* A session seen at the grain of the engine calls: an iteration of vad_loop may be
\* observed inside its engine call, while time passes and the client keeps sending.
NextEngine ==
    \/ \E n \in FrameLens : msg_count < MaxMessages /\ ReceiveBinary(n)
    \/ \E v \in Verdicts, a \in AsrOutcomes : EngineCallStarts(v, a)
    \/ \E v \in Verdicts, a \in AsrOutcomes : VadTick(v, a)
    \/ \E a \in AsrOutcomes : SendCompletes(a)
    \/ \E d \in TimeSteps : now + d <= MaxTime /\ Advance(d)

SpecEngine == Init /\ [][NextEngine]_vars

\* The connection in a process that serves other connections too: one of them may
\* send a vad_config message between any two steps of this one.
NextShared ==
    \/ \E n \in FrameLens : msg_count < MaxMessages /\ ReceiveBinary(n)
    \/ \E w \in ConfigWindows : other_config_updates < MaxConfigUpdates
                                /\ OtherConnectionVadConfig(WindowConfig(w))
    \/ \E v \in Verdicts, a \in AsrOutcomes : VadTick(v, a)
    \/ \E a \in AsrOutcomes : SendCompletes(a)

SpecShared == Init /\ [][NextShared]_vars

\* A session whose client sends vad_config messages of every kind.
NextConfig ==
    \/ \E n \in FrameLens : msg_count < MaxMessages /\ ReceiveBinary(n)
    \/ \E config \in ConfigMessages : config_updates < MaxConfigUpdates
                                       /\ ReceiveVadConfig(config)
    \/ \E v \in Verdicts, a \in AsrOutcomes : VadTick(v, a)
    \/ \E a \in AsrOutcomes : SendCompletes(a)

SpecConfig == Init /\ [][NextConfig]_vars

\* The receive loop on its timers: whole seconds pass, never past the moment the
\* pending receive times out; the client sends frames and vad_config messages when it
\* likes, and the event loop is never held up.
NextIdle ==
    \/ \E n \in FrameLens : msg_count < MaxIdleMessages /\ ReceiveBinary(n)
    \/ \E w \in ConfigWindows : config_updates < MaxConfigUpdates
                                /\ ReceiveVadConfig(WindowConfig(w))
    \/ \E d \in IdleSteps : /\ now + d <= MaxIdleTime
                            /\ now + d <= receive_started + RECEIVE_TIMEOUT
                            /\ Advance(d)
    \/ ReceiveTimeout
    \/ IdleTimeout

SpecIdle == Init /\ [][NextIdle]_vars

\* A stream without speech: the VAD engine judges every window it is given to be
\* silence, while frames arrive, time passes and the client may reconfigure the VAD.
NextSilence ==
    \/ \E n \in FrameLens : msg_count < MaxVadMessages /\ ReceiveBinary(n)
    \/ \E config \in ConfigMessages : config_updates < MaxConfigUpdates
                                       /\ ReceiveVadConfig(config)
    \/ \E a \in AsrOutcomes : VadTick("silence", a)
    \/ \E d \in TimeSteps : now + d <= MaxTime /\ Advance(d)

SpecSilence == Init /\ [][NextSilence]_vars

\* One POST /transcribe/file request, in either mode, from the segments of its
\* audio to the end of the response.
NextBatch ==
    \/ \E request \in BatchRequests : TranscribeFile(request)
    \/ YieldInitialization
    \/ YieldSegmentsSummary
    \/ TaskStarts
    \/ \E i \in 1..Len(transcription_tasks), a \in AsrOutcomes : TaskCompletes(i, a)
    \/ YieldSegment
    \/ YieldFinalSummary
    \/ Aggregate

SpecBatch == Init /\ [][NextBatch]_vars

\* A session whose client sends single frames and oversize payloads, which the
\* receive loop cuts into several frames before the VAD task runs again; the VAD
\* engine gives a verdict on every window.
NextOversize ==
    \/ \E n \in OversizeLens : msg_count < MaxOversizeMessages /\ ReceiveBinary(n)
    \/ \E v \in Verdicts \ {"error"}, a \in AsrOutcomes : VadTick(v, a)
    \/ \E a \in AsrOutcomes : SendCompletes(a)

SpecOversize == Init /\ [][NextOversize]_vars

\* One call of ASRModel.transcribe with a list of hotwords.
NextHotwords ==
    \E list \in HotwordLists, order \in SetOrders : Transcribe(list, order)

SpecHotwords == Init /\ [][NextHotwords]_vars

\* The handler from the accepted connection to its end, on every way out: models
\* missing, close or disconnect, idle timeout, a failed send, an exception.  The
\* receive loop gets control back at the latest when its 5 s wait times out, so once
\* is_active is false it leaves the loop.
NextHandler ==
    \/ ModelsNotLoaded
    \/ StartVadProcessing
    \/ UnhandledException
    \/ \E n \in FrameLens : msg_count < MaxHandlerMessages /\ ReceiveBinary(n)
    \/ \E v \in Verdicts, a \in AsrOutcomes : VadTick(v, a)
    \/ \E a \in AsrOutcomes : SendCompletes(a)
    \/ \E d \in TimeSteps : now + d <= MaxTime /\ Advance(d)
    \/ TransportBreaks
    \/ ReceiveClose
    \/ IngressStops
    \/ IdleTimeout

SpecHandler == InitAccepted /\ [][NextHandler]_vars /\ WF_vars(IngressStops)

(***************************************************************************)
(* Properties                                                              *)
(***************************************************************************)
Tentative(m) == m.type = "tentative_output"
Committed(m) == m.type = "committed_output"

\* C1: for each utterance, every tentative_output written to the transport comes
\* before the first committed_output of that utterance: no tentative_output of an
\* utterance follows a committed_output of the same utterance.
C1_TentativeBeforeCommitted ==
    \A i, j \in 1..Len(sent) :
        (i < j /\ Committed(sent[i]) /\ Tentative(sent[j])) => sent[i].uid # sent[j].uid

\* an utterance whose tentative output and committed output both reached the client
C1_Witness ==
    \E i, j \in 1..Len(sent) :
        i < j /\ Tentative(sent[i]) /\ Committed(sent[j]) /\ sent[i].uid = sent[j].uid

\* C2: every segment in speech_segments is final, so is the segment a commit is
\* running on, and the only segment that is not final is current_segment, which is
\* not in speech_segments.
C2_SingleOpenUtterance ==
    /\ \A i \in 1..Len(speech_segments) : speech_segments[i].is_final
    /\ commit_job # <<>> => commit_job[1].segment.is_final
    /\ current_segment # <<>> =>
          /\ ~current_segment[1].is_final
          /\ \A i \in 1..Len(speech_segments) :
                speech_segments[i].uid # current_segment[1].uid

\* an utterance is open while an earlier, finalized one is retained
C2_Witness ==
    /\ current_segment # <<>>
    /\ Len(speech_segments) >= 1
    /\ ~current_segment[1].is_final

\* C3: whatever verdicts the engine has given (speech, non-speech, error),
\* current_vad_threshold stays within [VAD_THRESHOLD_MIN, VAD_THRESHOLD_MAX].
C3_ThresholdBounds ==
    /\ VAD_THRESHOLD_MIN <= current_vad_threshold
    /\ current_vad_threshold <= VAD_THRESHOLD_MAX

\* the threshold has climbed to its ceiling during an utterance, and the last
\* update was one more raise
C3_Witness ==
    /\ current_vad_threshold = VAD_THRESHOLD_MAX
    /\ vad_is_speaking
    /\ vad_log # <<>> /\ Last(vad_log).case = "continue"

OpenStart == current_segment[1].start_chunk_id
Age(cid) == now - chunk_buffer[cid].timestamp

\* C4: while an utterance is open, admitting a frame (the only step that runs the
\* eviction pass) removes no frame whose id is at or after the utterance's
\* start_chunk_id, and leaves current_segment as it is.
C4_OpenUtteranceNeverEvicted ==
    [][(current_segment # <<>> /\ msg_count' # msg_count) =>
         /\ current_segment' = current_segment
         /\ \A cid \in DOMAIN chunk_buffer :
               cid >= OpenStart => cid \in DOMAIN chunk_buffer']_vars

\* C5 as stated: in every state, a frame older than MAX_AUDIO_BUFFER_SECONDS is in
\* chunk_buffer only if it belongs to the open utterance.
C5_NoOldFrameAtAnyTime ==
    \A cid \in DOMAIN chunk_buffer :
        Age(cid) > MAX_AUDIO_BUFFER_SECONDS =>
            (current_segment # <<>> /\ cid >= OpenStart)

\* C5, amended: the eviction pass runs only when a frame is admitted; measured at
\* the last pass (last_cleanup_time) no frame in chunk_buffer is older than
\* MAX_AUDIO_BUFFER_SECONDS, frames of the open utterance included.
C5_NoOldFrameAtLastCleanup ==
    \A cid \in DOMAIN chunk_buffer :
        chunk_buffer[cid].timestamp >= last_cleanup_time - MAX_AUDIO_BUFFER_SECONDS

\* an eviction pass has just removed frames and the buffer still holds one, while
\* an utterance is open
C5_Witness ==
    /\ last_payload.evicted # {}
    /\ chunk_buffer # <<>>
    /\ last_cleanup_time = now
    /\ current_segment # <<>>

\* C6: the k-th frame admitted has chunk_id k-1, whatever has been evicted, and
\* every frame is stored under its own chunk_id.
C6_DenseFrameIds ==
    /\ \A k \in 1..Len(admitted_ids) : admitted_ids[k] = k - 1
    /\ \A cid \in DOMAIN chunk_buffer :
          chunk_buffer[cid].chunk_id = cid /\ cid < Len(admitted_ids)

\* frames have been evicted, and a later payload admitted a frame
C6_Witness ==
    /\ ingress_pc = "recv"
    /\ \E cid \in 0..(next_chunk_id - 1) : cid \notin DOMAIN chunk_buffer
    /\ last_payload.evicted = {}
    /\ last_payload.ids # <<>>

LastVerdicts(k, v, W) ==
    /\ Len(vad_log) >= k
    /\ \A i \in (Len(vad_log) - k + 1)..Len(vad_log) :
          vad_log[i].verdict = v /\ vad_log[i].W = W

Dropout(i) ==
    /\ vad_log[i].verdict = "speech" /\ vad_log[i].case \in {"start", "continue"}
    /\ vad_log[i + 1].verdict = "silence"
    /\ vad_log[i + 2].verdict = "speech"
    /\ \A k \in i..(i + 2) : vad_log[k].W = 2

\* C9 as stated: with smoothing window 2, a single non-speech verdict between two
\* speech verdicts while an utterance is open ends no utterance and starts no
\* second one.
C9_DropoutAbsorbed ==
    \A i \in 1..(Len(vad_log) - 2) :
        Dropout(i) => (vad_log[i + 1].case # "end" /\ vad_log[i + 2].case # "start")

\* C9, amended: with smoothing window 2, a single non-speech verdict that follows
\* at least two consecutive speech verdicts of an open utterance and is followed by
\* a speech verdict ends no utterance and starts no second one: every one of these
\* windows takes the continuing branch.
C9_DropoutAfterTwoSpeechAbsorbed ==
    \A i \in 2..(Len(vad_log) - 2) :
        (Dropout(i) /\ vad_log[i - 1].verdict = "speech" /\ vad_log[i - 1].W = 2
                    /\ vad_log[i - 1].case \in {"start", "continue"}) =>
            \A k \in i..(i + 2) : vad_log[k].case = "continue"

\* speech, speech, non-speech, speech have just been evaluated under smoothing
\* window 2 and the utterance is still the one that was open
C9_Witness ==
    /\ Len(vad_log) = 4
    /\ Dropout(2)
    /\ vad_log[1].verdict = "speech" /\ vad_log[1].W = 2
    /\ vad_log[1].case \in {"start", "continue"}
    /\ vad_is_speaking /\ current_segment # <<>>

C11_TentativePacing ==
    /\ \A i \in 1..Len(tentative_attempts) :
          tentative_attempts[i].speaking /\ tentative_attempts[i].open
    /\ \A i \in 1..(Len(tentative_attempts) - 1) :
          tentative_attempts[i + 1].time - tentative_attempts[i].time >= 1

\* a second tentative attempt has been made in one session
C11_Witness == Len(tentative_attempts) >= 2

\* the longest the speech of utterance uid can have lasted, in milliseconds: its
\* windows with a speech verdict, each processing_window frames long
SpeechMs(uid) == speech_windows[uid] * processing_window * AUDIO_CHUNK_DURATION_MS

\* C12: no committed_output is emitted for an utterance whose speech lasted less
\* than 200 ms.
C12_ShortSpeechNotCommitted ==
    \A i \in 1..Len(sent) : Committed(sent[i]) => SpeechMs(sent[i].uid) >= 200

\* ceil(a / b) for b > 0
CeilDiv(a, b) == (a + b - 1) \div b

\* C13: an utterance that lasted longer than MAX_SEGMENT_DURATION is committed as
\* exactly ceil(duration / MAX_SEGMENT_DURATION) sub-segments, which lie end to end
\* in the committed PCM, each at most MAX_SEGMENT_DURATION long.
C13_SplitCount ==
    last_commit # <<>> =>
        LET c == last_commit[1]
            d == c.segment.end_time - c.segment.start_time
        IN  d > MAX_SEGMENT_DURATION =>
                /\ c.job # <<>>
                /\ c.job[1].split
                /\ c.job[1].num = CeilDiv(d, MAX_SEGMENT_DURATION)
                /\ c.job[1].audio_length <= c.job[1].num * max_bytes
                /\ c.job[1].audio_length > (c.job[1].num - 1) * max_bytes

\* the part indices of the committed outputs written for utterance uid, in the
\* order they were written
PartsSent(uid) ==
    LET OfUid(m) == Committed(m) /\ m.uid = uid
        ms == SelectSeq(sent, OfUid)
    IN  [i \in 1..Len(ms) |-> ms[i].part]

\* the last process_committed_transcription split its audio and has returned
SplitDone ==
    /\ last_commit # <<>> /\ last_commit[1].job # <<>> /\ last_commit[1].job[1].split
    /\ vad_pc = "idle"

\* C14 as stated: once a split commit has returned, exactly one committed_output has
\* been written per sub-segment, in index order, the i-th with suffix _part_i.
C14_OnePerSubSegment ==
    SplitDone => PartsSent(last_commit[1].segment.uid)
                    = [i \in 1..last_commit[1].job[1].num |-> i]

\* C14: for a split utterance at most one committed_output is written per
\* sub-segment, in increasing index order, the output of the i-th sub-segment
\* carrying suffix _part_i (1-based) and that sub-segment's length; an unsplit
\* utterance gets at most one output, without a part suffix.
C14_PartsInOrder ==
    last_commit # <<>> =>
        LET c == last_commit[1]
            parts == PartsSent(c.segment.uid)
            OfUid(m) == Committed(m) /\ m.uid = c.segment.uid
            ms == SelectSeq(sent, OfUid)
        IN  IF c.job = <<>> THEN parts = <<>>
            ELSE IF ~c.job[1].split THEN parts \in {<<>>, <<0>>}
            ELSE /\ \A i \in 1..Len(parts) : parts[i] \in 1..c.job[1].num
                 /\ \A i \in 1..(Len(parts) - 1) : parts[i] < parts[i + 1]
                 /\ \A i \in 1..Len(ms) :
                       ms[i].audio_length =
                           Min(max_bytes, c.audio_length - (ms[i].part - 1) * max_bytes)

\* a split commit has returned with both of its parts written
C14_Witness ==
    SplitDone /\ PartsSent(last_commit[1].segment.uid) = <<1, 2>>

RECURSIVE SumDurations(_)
SumDurations(ms) ==
    IF ms = <<>> THEN 0 ELSE ms[1].duration + SumDurations(Tail(ms))

\* the committed outputs written for the utterance of the last commit
LastCommitted ==
    LET OfUid(m) == Committed(m) /\ m.uid = last_commit[1].segment.uid
    IN  SelectSeq(sent, OfUid)

\* SpeechSegment.duration of the segment of the last commit, in the unit of the
\* duration field of a message
LastSegmentDuration ==
    (last_commit[1].segment.end_time - last_commit[1].segment.start_time) * bytes_per_sec

\* C15 as stated: an unsplit committed_output has audio_length within one frame of
\* 2 x sample_rate x duration, and once a split commit has returned the durations of
\* its outputs sum to the utterance's duration within one frame.
C15_DurationMatchesAudio ==
    /\ \A i \in 1..Len(sent) :
          Committed(sent[i]) /\ sent[i].part = 0 =>
              /\ sent[i].audio_length - sent[i].duration <= AUDIO_CHUNK_SIZE
              /\ sent[i].duration - sent[i].audio_length <= AUDIO_CHUNK_SIZE
    /\ SplitDone =>
          /\ SumDurations(LastCommitted) - LastSegmentDuration <= AUDIO_CHUNK_SIZE
          /\ LastSegmentDuration - SumDurations(LastCommitted) <= AUDIO_CHUNK_SIZE

\* C15: the duration a committed_output reports never exceeds its audio: for an
\* unsplit utterance it is the smaller of the PCM's duration and the utterance's
\* wall-clock duration, for a sub-segment it is the sub-segment's PCM exactly; the
\* durations of the outputs of a split utterance sum to at most the committed PCM,
\* and to exactly that once all its sub-segments are written.
C15_DurationWithinAudio ==
    /\ \A i \in 1..Len(sent) :
          Committed(sent[i]) =>
              /\ sent[i].duration <= sent[i].audio_length
              /\ sent[i].part > 0 => sent[i].duration = sent[i].audio_length
    /\ last_commit # <<>> =>
          /\ \A i \in 1..Len(LastCommitted) :
                LastCommitted[i].part = 0 =>
                    LastCommitted[i].duration =
                        Min(LastCommitted[i].audio_length, LastSegmentDuration)
          /\ SumDurations(LastCommitted) <= last_commit[1].audio_length
          /\ (SplitDone /\ Len(LastCommitted) = last_commit[1].job[1].num) =>
                SumDurations(LastCommitted) = last_commit[1].audio_length

\* a split commit has returned with all its parts written, and their durations sum
\* to the PCM fetched, which is less than the utterance's wall-clock duration
C15_Witness ==
    /\ SplitDone
    /\ Len(LastCommitted) = last_commit[1].job[1].num
    /\ SumDurations(LastCommitted) = last_commit[1].audio_length
    /\ LastSegmentDuration - SumDurations(LastCommitted) > AUDIO_CHUNK_SIZE

\* websocket_audio has left its receive loop and run its finally block
Closed == ingress_pc = "closed"

\* C16: once the handler has left the receive loop (close message, disconnect or
\* idle timeout) the connection is inactive and the buffer holds no frame, no
\* retained utterance and no open utterance; from then on the VAD task evaluates
\* no window and nothing is written; an utterance open when the loop is left has
\* no committed_output.
C16_ReleasedAfterClose ==
    /\ [](Closed => /\ ~is_active
                    /\ chunk_buffer = <<>> /\ speech_segments = <<>>
                    /\ current_segment = <<>>
                    /\ vad_pc \in {"cancelled", "dead"})
    /\ [][Closed => UNCHANGED <<vadVars, taskVars, bufferVars, vad_log, sent,
                                tentative_attempts, last_commit>>]_vars
    /\ [][(~Closed /\ Closed' /\ current_segment # <<>>) =>
             \A i \in 1..Len(sent') :
                 Committed(sent'[i]) => sent'[i].uid # current_segment[1].uid]_vars

\* the loop was left on the idle timeout while an utterance was open
C16_Witness ==
    /\ Closed /\ vad_is_speaking
    /\ now - last_activity > 30
    /\ speech_windows # <<>>
    /\ \A i \in 1..Len(sent) : Committed(sent[i]) => sent[i].uid # Len(speech_windows)

\* C17: while an engine call of the connection is in flight, the receive loop can
\* still admit a frame that the client has sent.
C17_IngestDuringEngineCall ==
    (engine_call # <<>> /\ ingress_pc = "recv" /\ is_active /\ transport = "open")
        => ENABLED ReceiveBinary(AUDIO_CHUNK_SIZE)

\* C18: once a send has failed the connection is inactive, and no later send_json
\* on the connection attempts a write on the transport.
C18_NoWriteAfterFailure ==
    late_writes # <<>> => (~is_active /\ late_writes[1] = 0)

\* C19: a step taken by another connection does not change what this connection's
\* next VAD window will do (its counters, its speaking state, the utterance it
\* starts or ends), whatever the engine answers.
C19_Isolation ==
    [][other_config_updates' # other_config_updates =>
          \A v \in Verdicts : process_vad(v)' = process_vad(v)]_vars

\* a config the specification calls valid: values of the right type,
\* speech_threshold in [0, 1] and smoothing_window at least 1
ValidConfig(config) ==
    /\ config.speech_threshold.kind \in {"absent", "int", "float"}
    /\ config.smoothing_window.kind \in {"absent", "int"}
    /\ config.speech_threshold.kind # "absent" =>
          (0 <= config.speech_threshold.value /\ config.speech_threshold.value <= 100)
    /\ config.smoothing_window.kind # "absent" => config.smoothing_window.value >= 1

\* C20: a vad_config message with an invalid config is answered with an error and
\* leaves AppConfig as it was; a valid one is answered with config_updated.
C20_InvalidConfigRejected ==
    [][config_updates' # config_updates =>
          IF ValidConfig(last_reply'[1].config)
          THEN last_reply'[1].type = "config_updated"
          ELSE /\ last_reply'[1].type = "error"
               /\ UNCHANGED <<VAD_SPEECH_THRESHOLD, VAD_SMOOTHING_WINDOW>>]_vars


\* the transcript outputs written or being written
Emitted == outbox \cup {sent[i] : i \in 1..Len(sent)}

WindowStep(v) ==
    /\ is_active /\ LoopReady
    /\ process_vad(v).evaluated
    /\ chunk_accumulator' # chunk_accumulator
    /\ vad_log' # <<>> /\ Last(vad_log').verdict = v

\* C22: when the VAD engine raises on a window the accumulator is emptied, the two
\* counters and the speaking flag keep their values, no utterance is opened or
\* finalized, and the VAD task stays in its loop.
C22_EngineErrorSkipsWindow ==
    [][WindowStep("error") =>
          /\ chunk_accumulator' = <<>>
          /\ speech_count' = speech_count
          /\ silence_count' = silence_count
          /\ vad_is_speaking' = vad_is_speaking
          /\ current_segment' = current_segment
          /\ speech_segments' = speech_segments
          /\ next_segment_uid' = next_segment_uid
          /\ commit_job' = commit_job
          /\ is_active' = is_active
          /\ vad_pc' \notin {"dead", "cancelled"}]_vars

\* the engine raised on a window in the middle of an utterance, and a later window
\* was evaluated
C22_Witness ==
    /\ vad_is_speaking
    /\ \E i, j \in 1..Len(vad_log) :
          /\ i < j
          /\ vad_log[i].verdict = "error"
          /\ vad_log[j].verdict = "speech" /\ vad_log[j].case = "continue"


\* the receive loop was left on the idle timeout, after its error 408
IdleClosed == ingress_pc = "closed" /\ last_reply = <<[type |-> "error", code |-> 408]>>

\* C23: the session is ended for idleness only at a receive timeout that finds
\* IDLE_TIMEOUT s or more since the last message, and no later than one receive
\* timeout after that: it ends between 30 and 35 s after its last message, with the
\* error 408 sent; an open session is never more than 35 s past its last message;
\* every message received, binary or text, restarts the count; and a receive timeout
\* before the 30 s leaves the session open.
C23_IdleTimeout ==
    /\ [](IdleClosed => /\ now - last_activity >= IDLE_TIMEOUT
                        /\ now - last_activity <= IDLE_TIMEOUT + RECEIVE_TIMEOUT)
    /\ [](ingress_pc = "recv" => now - last_activity <= IDLE_TIMEOUT + RECEIVE_TIMEOUT)
    /\ [][(msg_count' # msg_count \/ config_updates' # config_updates) =>
              last_activity' = now']_vars
    /\ [][(ingress_pc = "recv" /\ now - last_activity < IDLE_TIMEOUT
             /\ msg_count' = msg_count /\ config_updates' = config_updates) =>
              /\ ingress_pc' = "recv"
              /\ last_activity' = last_activity]_vars
    /\ [][(ingress_pc = "recv" /\ ingress_pc' = "closed") =>
              /\ last_reply' = <<[type |-> "error", code |-> 408]>>
              /\ ~is_active']_vars

\* a session that went on past a receive timeout, in which a frame and a text
\* message restarted the count, and that was ended 35 s after its last message
C23_Witness ==
    /\ IdleClosed
    /\ msg_count > 0 /\ config_updates > 0
    /\ last_activity > 1 + RECEIVE_TIMEOUT
    /\ now - last_activity = IDLE_TIMEOUT + RECEIVE_TIMEOUT


\* C24: in a stream whose every window is judged silence no utterance starts: the
\* speaking flag stays down, no SpeechSegment is ever constructed, no tentative
\* transcription is attempted, no tentative_output or committed_output is sent or
\* awaited, and current_vad_threshold stays at VAD_THRESHOLD_MIN.
C24_SilenceOpensNothing ==
    /\ ~vad_is_speaking
    /\ speech_count = 0
    /\ \A i \in 1..Len(vad_log) : vad_log[i].case \notin {"start", "continue", "end"}
    /\ current_segment = <<>> /\ speech_segments = <<>> /\ next_segment_uid = 1
    /\ tentative_attempts = <<>> /\ commit_job = <<>>
    /\ outbox = {} /\ sent = <<>>
    /\ current_vad_threshold = VAD_THRESHOLD_MIN

\* as many silent windows as the log holds were evaluated, the last of them after
\* the smoothing window was filled
C24_Witness ==
    /\ Len(vad_log) = MaxLog
    /\ \A i \in 1..Len(vad_log) : vad_log[i].verdict = "silence"
    /\ vad_log[MaxLog].case = "quiet"
    /\ silence_count = VAD_SMOOTHING_WINDOW /\ silence_count > 0


\* a step in which process_vad gives a window to the VAD engine, whatever it answers
WindowGiven ==
    /\ is_active /\ LoopReady
    /\ process_vad("silence").evaluated
    /\ chunk_accumulator' # chunk_accumulator

\* C25: the chunk ids given to the VAD engine ascend, inside each window and from
\* one window to the next: the first id of a window is larger than the last id of
\* the window given before it.
C25_FramesAscend ==
    [][WindowGiven =>
          LET window == process_vad("silence").window
          IN  /\ \A i \in 1..(Len(window) - 1) : window[i] < window[i + 1]
              /\ vad_passed # <<>> => window[1] > vad_passed[1]]_vars


\* C26: after every window the VAD engine has judged, speech_count and silence_count
\* lie between 0 and the smoothing window then in effect, whatever vad_config
\* updates came before.
C26_CountersWithinWindow ==
    [][\A v \in Verdicts \ {"error"} :
          WindowStep(v) =>
              /\ speech_count' \in 0..VAD_SMOOTHING_WINDOW'
              /\ silence_count' \in 0..VAD_SMOOTHING_WINDOW']_vars


\* the lines a finished response has, for n sub-segments: position k + 2 is segment k
SegmentLine(r, k) == r.type \in {"segment_result", "segment_error"} /\ r.segment_index = k

\* C27: the lines yielded so far are a prefix of: one initialization, one
\* segments_summary, one segment_result or segment_error for each final segment in
\* segment_index order, one final_summary; and a finished response has them all.
C27_StreamOrder ==
    LET n == Len(final_segments)
    IN  /\ Len(batch_lines) <= n + 3
        /\ \A k \in 1..Len(batch_lines) :
              IF k = 1 THEN batch_lines[k].type = "initialization"
              ELSE IF k = 2 THEN batch_lines[k].type = "segments_summary"
              ELSE IF k <= n + 2 THEN SegmentLine(batch_lines[k], k - 2)
              ELSE batch_lines[k].type = "final_summary"
        /\ batch_pc \in {"aggregate", "done"} => Len(batch_lines) = n + 3

\* a finished streamed response of four sub-segments whose transcriptions did not
\* complete in segment_index order, with a result and an error among them
C27_Witness ==
    /\ batch_pc = "done" /\ batch_request[1].stream
    /\ Len(final_segments) = 4
    /\ \E i, j \in 1..Len(batch_order) : i < j /\ batch_order[i] > batch_order[j]
    /\ OfType(batch_lines, "segment_result") # <<>>
    /\ OfType(batch_lines, "segment_error") # <<>>


\* the per-sub-segment records among the lines of the response
SegmentRecords(lines) ==
    SelectSeq(lines, LAMBDA r : r.type \in {"segment_result", "segment_error"})

\* C28: the body returned in non-streaming mode holds every per-sub-segment record
\* that the generator yielded, results and errors alike, and its total_segments is
\* the number of final segments.
C28_AggregateHasEveryRecord ==
    batch_response # <<>> =>
        /\ batch_response[1].segments = SegmentRecords(batch_lines)
        /\ batch_response[1].total_segments = Len(final_segments)


\* C29: when a window is judged while speaking is false and leaves speech_count at
\* 1 or more, speaking becomes true, an utterance is opened whose start_chunk_id is
\* the first chunk id of that window, and current_vad_threshold becomes
\* min(current_vad_threshold + VAD_THRESHOLD_STEP, VAD_THRESHOLD_MAX).
C29_SpeechStart ==
    [][\A v \in Verdicts \ {"error"} :
          (WindowStep(v) /\ ~vad_is_speaking /\ speech_count' >= 1) =>
              /\ vad_is_speaking'
              /\ current_segment' # <<>>
              /\ current_segment'[1].start_chunk_id = process_vad(v).window[1]
              /\ current_segment'[1].uid = next_segment_uid
              /\ current_vad_threshold' =
                    Min(current_vad_threshold + VAD_THRESHOLD_STEP, VAD_THRESHOLD_MAX)]_vars


\* C30: when a window is judged while speaking is true and leaves silence_count at
\* the smoothing window or more, speaking becomes false, the open utterance is
\* finalized with end_chunk_id equal to the last chunk id of that window (the first
\* processing_window chunks of the accumulator), and current_vad_threshold is reset
\* to VAD_THRESHOLD_MIN.
C30_SpeechEnd ==
    [][\A v \in Verdicts \ {"error"} :
          (WindowStep(v) /\ vad_is_speaking
             /\ silence_count' >= VAD_SMOOTHING_WINDOW) =>
              /\ ~vad_is_speaking'
              /\ current_segment' = <<>>
              /\ current_segment # <<>> =>
                    /\ last_commit' # <<>>
                    /\ last_commit'[1].segment.uid = current_segment[1].uid
                    /\ last_commit'[1].segment.end_chunk_id = Last(process_vad(v).window)
              /\ current_vad_threshold' = VAD_THRESHOLD_MIN]_vars

\* a step in which vad_loop opens a new utterance
UtteranceStarts ==
    /\ current_segment' # <<>>
    /\ current_segment = <<>> \/ current_segment[1].uid # current_segment'[1].uid

\* C31: the accumulated tentative text holds text of the newest utterance only, and
\* in the iteration that opens an utterance it is empty, or is exactly the one
\* tentative text produced in that same iteration.
C31_AccumulatedTextPerUtterance ==
    /\ [](\A i \in DOMAIN saved_temporary_transcription_text :
             saved_temporary_transcription_text[i] = next_segment_uid - 1)
    /\ [][UtteranceStarts =>
             saved_temporary_transcription_text'
                 \in {<<>>, <<current_segment'[1].uid>>}]_vars

\* a second utterance has its first tentative text, after the first one had some
C31_Witness ==
    /\ saved_temporary_transcription_text = <<2>>
    /\ \E i \in DOMAIN sent : sent[i].type = "tentative_output" /\ sent[i].uid = 1

\* C32: every finalized utterance, in speech_segments or handed to a committed
\* transcription, has start_chunk_id <= end_chunk_id.
C32_StartNotAfterEnd ==
    /\ \A i \in 1..Len(speech_segments) :
          speech_segments[i].is_final =>
              speech_segments[i].start_chunk_id <= speech_segments[i].end_chunk_id
    /\ last_commit # <<>> =>
          last_commit[1].segment.start_chunk_id <= last_commit[1].segment.end_chunk_id

\* an utterance has been finalized by the end of speech, some frames after its start
C32_Witness ==
    /\ current_segment = <<>>
    /\ last_commit # <<>>
    /\ \E i \in 1..Len(speech_segments) :
          /\ speech_segments[i] = last_commit[1].segment
          /\ speech_segments[i].is_final
          /\ speech_segments[i].start_chunk_id < speech_segments[i].end_chunk_id

\* C33: once a window has been given to the VAD engine, none of its frames is
\* fetched again by get_chunks_for_vad: the frames it returns from then on have chunk
\* ids that were in no window.
C33_ConsumedNeverFetchedAgain ==
    [][WindowGiven =>
          LET window == process_vad("silence").window
              fetched == get_chunks_for_vad(chunk_buffer', INITIAL_VAD_SMOOTHING_WINDOW)
          IN  \A i \in 1..Len(fetched), k \in 1..Len(window) :
                  fetched[i].chunk_id # window[k]]_vars

\* the chunk ids the next call of get_chunks_for_vad returns
Fetched == ChunkIds(get_chunks_for_vad(chunk_buffer, INITIAL_VAD_SMOOTHING_WINDOW))

\* C34: while the VAD task runs, every buffered frame that no window has held yet
\* (its chunk id is above the last one given to the engine) is on its way to a
\* window: it is in the accumulator or among the frames the next tick fetches.  A
\* frame that is in neither can never enter a window, since later fetches return
\* newer frames only.
C34_EveryFrameReachesWindow ==
    (is_active /\ vad_pc \notin {"dead", "cancelled"}) =>
        \A cid \in DOMAIN chunk_buffer :
            (vad_passed = <<>> \/ cid > vad_passed[1]) =>
                cid \in ChunkIds(chunk_accumulator) \cup Fetched

\* the chunk ids beyond the first processing_window of those the iteration has in
\* hand: the ones in the accumulator and the ones it fetches
SurplusIds ==
    LET order == SetToSortedSeq(ChunkIds(chunk_accumulator) \cup Fetched)
    IN  {order[i] : i \in (processing_window + 1)..Len(order)}

\* C35: the accumulator never holds more than processing_window + 1 frames nor two
\* frames with one chunk id; an iteration that gives a window to the engine leaves in
\* it nothing but the surplus beyond the first processing_window frames, and all of
\* that surplus when the engine has given its verdict.
C35_AccumulatorBounded ==
    /\ [](/\ Len(chunk_accumulator) <= processing_window + 1
          /\ Cardinality(ChunkIds(chunk_accumulator)) = Len(chunk_accumulator))
    /\ [][/\ WindowGiven => ChunkIds(chunk_accumulator') \subseteq SurplusIds
          /\ \A v \in Verdicts \ {"error"} :
                WindowStep(v) => ChunkIds(chunk_accumulator') = SurplusIds]_vars

\* a window has been evaluated and one surplus frame is left for the next one
C35_Witness ==
    /\ vad_passed # <<>>
    /\ Len(chunk_accumulator) = 1
    /\ chunk_accumulator[1].chunk_id > vad_passed[1]

\* the final segments cut from the raw segment with original_index k, in order
CutFrom(k) == SelectSeq(final_segments, LAMBDA seg : seg.original_index = k)

\* C36: of every interval get_segments found, cut_long_segments emits the interval
\* itself when it is no longer than MAX_SEGMENT_DURATION; otherwise sub-segments of
\* at most MAX_SEGMENT_DURATION * sample_rate samples, the first starting at the
\* interval's start, each starting where the one before ends, none reaching beyond
\* the interval's end, and the last ending at most 0.1 s before it.
C36_CutLongSegments ==
    batch_request # <<>> =>
        \A k \in 1..Len(batch_request[1].raw_segments) :
            LET raw == batch_request[1].raw_segments[k]
                subs == CutFrom(raw.original_index)
            IN  IF raw.end_sample - raw.start_sample <= samples_per_sub_segment
                THEN /\ Len(subs) = 1
                     /\ subs[1].start_sample = raw.start_sample
                     /\ subs[1].end_sample = raw.end_sample
                     /\ ~subs[1].is_long_segment
                ELSE /\ Len(subs) >= 1
                     /\ subs[1].start_sample = raw.start_sample
                     /\ \A i \in 1..Len(subs) :
                           /\ subs[i].start_sample < subs[i].end_sample
                           /\ subs[i].end_sample - subs[i].start_sample
                                 <= samples_per_sub_segment
                           /\ subs[i].end_sample <= raw.end_sample
                           /\ i > 1 => subs[i].start_sample = subs[i - 1].end_sample
                     /\ raw.end_sample - Last(subs).end_sample <= min_samples

\* a file of 30.05 s has been cut: one sub-segment of 30 s, the last 50 ms left out
C36_Witness ==
    /\ batch_request # <<>>
    /\ batch_request[1].total_samples = 480800
    /\ Len(final_segments) = 1
    /\ final_segments[1].is_long_segment
    /\ final_segments[1].end_sample = samples_per_sub_segment

\* C37: the entries put in the prompt are at most max_hotwords, each trimmed, in
\* lower case and not empty, and no two of them are equal.
C37_HotwordsCleaned ==
    hotwords_prompt # <<>> =>
        LET entries == hotwords_prompt[1]
        IN  /\ Len(entries) <= max_hotwords
            /\ \A i \in 1..Len(entries) :
                  /\ entries[i] = strip_lower(entries[i])
                  /\ entries[i].word # 0
            /\ \A i, j \in 1..Len(entries) : i # j => entries[i] # entries[j]

\* C38: while the smoothing window stays as it was when the session began,
\* speech_count + silence_count never exceeds it, so silence_count at the window or
\* more leaves speech_count at 0; and a window judged while speaking that leaves
\* silence_count at the smoothing window or more takes the end branch, never the
\* one of continuing speech.
C38_CountersShareWindow ==
    /\ [](/\ speech_count + silence_count <= VAD_SMOOTHING_WINDOW
          /\ silence_count >= VAD_SMOOTHING_WINDOW => speech_count = 0)
    /\ [][\A v \in Verdicts \ {"error"} :
             (WindowStep(v) /\ vad_is_speaking
                /\ silence_count' >= VAD_SMOOTHING_WINDOW) =>
                 /\ Last(vad_log').case = "end"
                 /\ speech_count' = 0
                 /\ ~vad_is_speaking']_vars

\* under smoothing window 3 an utterance has ended: three windows of silence in a
\* row wore the speech count down and filled the silence count
C38_Witness ==
    /\ VAD_SMOOTHING_WINDOW = 3
    /\ vad_log # <<>> /\ Last(vad_log).case = "end"
    /\ silence_count = 3 /\ speech_count = 0
    /\ ~vad_is_speaking

\* C39: as long as the session has not been cleaned up, the speaking flag of the VAD
\* controller is true exactly when the buffer manager has an open utterance.
C39_SpeakingIffOpenUtterance ==
    ingress_pc = "recv" => (vad_is_speaking <=> current_segment # <<>>)

\* C40: however the handler ends, manager.cleanup() has run exactly once when it has
\* ended and never before: the connection is then gone from active_connections,
\* inactive, its VAD task cancelled (or already ended, or never created) and its
\* buffer empty; and once a send has failed the handler does end.
C40_CleanupOnEveryExit ==
    /\ [](IF Closed
          THEN /\ cleanups = 1
               /\ client_id \notin active_connections
               /\ ~is_active
               /\ vad_pc \in {"cancelled", "dead", "none"}
               /\ chunk_buffer = <<>> /\ speech_segments = <<>>
               /\ current_segment = <<>>
          ELSE /\ cleanups = 0
               /\ client_id \in active_connections)
    /\ [][Closed => UNCHANGED <<registryVars, vad_pc, chunk_buffer>>]_vars
    /\ (~is_active ~> Closed)

\* the handler has ended after a send of the VAD task failed, the task being cancelled
C40_Witness ==
    /\ Closed
    /\ transport = "broken" /\ late_writes # <<>>
    /\ now - last_activity < IDLE_TIMEOUT
    /\ vad_pc = "cancelled"
    /\ cleanups = 1

====
